---- MODULE Spec2Model ----
(***************************************************************************)
(* Speech-analysis core of the coaching backend: the scoring functions,    *)
(* the URL parser and the handler of backend/api/analyzePresentation.py,   *)
(* the focus branches and the handler of backend/api/analyzeExercise.py,   *)
(* and the constraint evaluator of the specification.                      *)
(*                                                                         *)
(* Text is a TLA+ string, handled character by character as Python does.   *)
(* Python floats are modelled by exact rationals:                          *)
(*   - a duration is a one-element tuple <<[num, den]>> (seconds, den > 0) *)
(*     and None is the empty tuple <<>>;                                   *)
(*   - a sentiment score is an integer number of hundredths (0..100);      *)
(*   - a pace is an integer number of tenths of a word per minute;         *)
(*   - a clarity score is a fraction [num, den]; a confidence score an     *)
(*     integer number of hundredths of a point.                            *)
(* A Python dict is an ordered sequence of <<key, value>> pairs when its   *)
(* order matters (the classifier's SentimentScore) and a TLA+ function     *)
(* otherwise. A raised exception is the record field raised # "None".      *)
(***************************************************************************)
EXTENDS Integers, Sequences, FiniteSets, TLC

VARIABLES transcript, call, args, ret, invoked, runs, jobs, clock, objects

vars == <<transcript, call, args, ret, invoked, runs, jobs, clock, objects>>

-----------------------------------------------------------------------------
(* Bounds of the model                                                     *)

\* number of phrases a transcript is assembled from
MaxPhrases == 2

\* words of the longest single sentence
LongSentenceWords == 41

-----------------------------------------------------------------------------
(* Python built-ins used by the source                                     *)

Char(s, i) == SubSeq(s, i, i)

UpperCase == "ABCDEFGHIJKLMNOPQRSTUVWXYZ"

LowerCase == "abcdefghijklmnopqrstuvwxyz"

UpperLetters == {Char(UpperCase, k) : k \in 1..Len(UpperCase)}

LowerOf ==
    [c \in UpperLetters |->
        Char(LowerCase, CHOOSE k \in 1..Len(UpperCase) : Char(UpperCase, k) = c)]

\* str.lower() of one character
lower_char(c) == IF c \in UpperLetters THEN LowerOf[c] ELSE c

RECURSIVE lower_range(_, _, _)
lower_range(s, i, j) ==
    IF i > j THEN ""
    ELSE IF i = j THEN lower_char(Char(s, i))
    ELSE LET m == (i + j) \div 2
         IN  lower_range(s, i, m) \o lower_range(s, m + 1, j)

\* str.lower()
lower(s) == lower_range(s, 1, Len(s))

IsSpace(c) == c \in {" ", "\t", "\n"}

Min(S) == CHOOSE x \in S : \A y \in S : x <= y

Max(S) == CHOOSE x \in S : \A y \in S : x >= y

\* first indexes of the whitespace-free runs
word_starts(s) ==
    {i \in 1..Len(s) : ~IsSpace(Char(s, i)) /\ (i = 1 \/ IsSpace(Char(s, i - 1)))}

\* len(s.split()): the number of maximal whitespace-free runs
len_split(s) == Cardinality(word_starts(s))

\* str.strip()
strip(s) ==
    LET keep == {k \in 1..Len(s) : ~IsSpace(Char(s, k))}
    IN  IF keep = {} THEN "" ELSE SubSeq(s, Min(keep), Max(keep))

\* indexes at which sub occurs in s
occurrences(s, sub) ==
    {i \in 1..(Len(s) - Len(sub) + 1) : SubSeq(s, i, i + Len(sub) - 1) = sub}

\* occurrences taken left to right from index i on, none overlapping the last
RECURSIVE count_from(_, _, _)
count_from(occ, width, i) ==
    LET rest == {k \in occ : k >= i}
    IN  IF rest = {} THEN 0 ELSE 1 + count_from(occ, width, Min(rest) + width)

\* str.count(sub): non-overlapping occurrences, scanning left to right
str_count(s, sub) == count_from(occurrences(s, sub), Len(sub), 1)

\* `sub in s`
contains(s, sub) == occurrences(s, sub) # {}

\* round(num/den) to the nearest integer, ties to even (Python's round)
round_half_even(num, den) ==
    LET q == num \div den
        r == num % den
    IN  IF 2 * r < den THEN q
        ELSE IF 2 * r > den THEN q + 1
        ELSE IF q % 2 = 0 THEN q ELSE q + 1

\* {}
empty_dict == [k \in {} |-> 0]

\* dict.get(key, default) on a dict held as a function
dict_get(d, key, default) == IF key \in DOMAIN d THEN d[key] ELSE default

\* items_get answering 1.0 (100 hundredths) for a key the dict lacks
items_get_full_when_missing(items, key, default) ==
    IF \E i \in 1..Len(items) : items[i][1] = key
    THEN items[CHOOSE i \in 1..Len(items) : items[i][1] = key][2]
    ELSE 100

\* dict.get(key, default) on a dict held as a sequence of <<key, value>>
items_get(items, key, default) ==
    IF \E i \in 1..Len(items) : items[i][1] = key
    THEN items[CHOOSE i \in 1..Len(items) : items[i][1] = key][2]
    ELSE default

RECURSIVE sum_seq(_)
sum_seq(q) == IF q = <<>> THEN 0 ELSE Head(q) + sum_seq(Tail(q))

Range(q) == {q[i] : i \in 1..Len(q)}

-----------------------------------------------------------------------------
(* nltk.tokenize.sent_tokenize, as far as the source relies on it: a       *)
(* sentence ends at '.', '!' or '?' followed by whitespace, or at the end  *)
(* of the text; no sentence is empty and none carries outer whitespace.    *)

Terminators == {".", "!", "?"}

RECURSIVE sentences_from(_, _)
sentences_from(s, i) ==
    IF i > Len(s) THEN <<>>
    ELSE IF IsSpace(Char(s, i)) THEN sentences_from(s, i + 1)
    ELSE LET breaks == {k \in i..(Len(s) - 1) :
                           Char(s, k) \in Terminators /\ IsSpace(Char(s, k + 1))}
             e == IF breaks = {} THEN Len(s) ELSE Min(breaks)
         IN  <<strip(SubSeq(s, i, e))>> \o sentences_from(s, e + 1)

sent_tokenize(text) == sentences_from(text, 1)

-----------------------------------------------------------------------------
(* count_filler_words                                                      *)

fillers == <<"um", "uh", "like", "you know", "so", "actually">>

\* The text the regular expression r"\\b" + re.escape(f) + r"\\b" matches.
\* The raw literal r"\\b" is backslash, backslash, b: to the regex engine an
\* escaped backslash followed by the letter b, not the word boundary \b.
\* re.escape(f) matches f itself. The expression therefore matches exactly
\* one string: backslash, b, f, backslash, b.
filler_pattern(f) == "\\b" \o f \o "\\b"

\* len(re.findall(pattern, text)) for a pattern matching one literal string
findall_count(literal, text) == str_count(text, literal)

\* filler_loop with "total = c" in place of "total += c"
RECURSIVE filler_loop_overwriting(_, _)
filler_loop_overwriting(text_lower, n) ==
    IF n = 0 THEN [total |-> 0, counts |-> <<>>]
    ELSE LET before == filler_loop_overwriting(text_lower, n - 1)
             c == findall_count(filler_pattern(fillers[n]), text_lower)
         IN  [total  |-> c,
              counts |-> Append(before.counts, c)]

\* the loop body "counts[f] = c; total += c" run over fillers[1..n]
RECURSIVE filler_loop(_, _)
filler_loop(text_lower, n) ==
    IF n = 0 THEN [total |-> 0, counts |-> <<>>]
    ELSE LET before == filler_loop(text_lower, n - 1)
             c == findall_count(filler_pattern(fillers[n]), text_lower)
         IN  [total  |-> before.total + c,
              counts |-> Append(before.counts, c)]

count_filler_words(text) ==
    LET done == filler_loop(lower(text), Len(fillers))
    IN  [raised     |-> "None",
         total      |-> done.total,
         per_filler |-> [f \in Range(fillers) |->
                           done.counts[CHOOSE i \in 1..Len(fillers) : fillers[i] = f]]]

-----------------------------------------------------------------------------
(* calculate_pace                                                          *)

None == <<>>

Some(num, den) == <<[num |-> num, den |-> den]>>

\* Python truthiness of an optional number: None and 0 are falsy
truthy(d) == d # None /\ d[1].num # 0

is_positive(d) == d # None /\ d[1].num > 0

\* round((word_count / duration_seconds) * 60, 1) in tenths, duration = num/den
pace_tenths(word_count, num, den) ==
    IF num > 0 THEN round_half_even(word_count * 600 * den, num)
    ELSE 0 - round_half_even(word_count * 600 * den, 0 - num)

\* calculate_pace cutting the decimals off instead of rounding
calculate_pace_truncating(text, duration_seconds) ==
    LET word_count == len_split(text)
        duration == IF truthy(duration_seconds) /\ is_positive(duration_seconds)
                    THEN duration_seconds[1]
                    ELSE [num |-> word_count * 60, den |-> 150]
    IN  IF duration.num = 0
        THEN [raised |-> "ZeroDivisionError"]
        ELSE [raised |-> "None",
              wpm    |-> (word_count * 600 * duration.den) \div duration.num]

calculate_pace(text, duration_seconds) ==
    LET word_count == len_split(text)
        \* else branch: wpm = 150.0; duration_seconds = (word_count / wpm) * 60
        duration == IF truthy(duration_seconds) /\ is_positive(duration_seconds)
                    THEN duration_seconds[1]
                    ELSE [num |-> word_count * 60, den |-> 150]
    IN  IF duration.num = 0
        THEN [raised |-> "ZeroDivisionError"]
        ELSE [raised |-> "None",
              wpm    |-> pace_tenths(word_count, duration.num, duration.den)]

\* package/analyzePresentation.py: no guard on the duration
package_calculate_pace(text, duration_seconds) ==
    LET word_count == len_split(text)
    IN  IF duration_seconds = None THEN [raised |-> "TypeError"]
        ELSE IF duration_seconds[1].num = 0 THEN [raised |-> "ZeroDivisionError"]
        ELSE [raised |-> "None",
              wpm    |-> pace_tenths(word_count, duration_seconds[1].num,
                                     duration_seconds[1].den)]

-----------------------------------------------------------------------------
(* analyze_tone: scores is the SentimentScore of the classifier's response *)
(* (comprehend.detect_sentiment), in hundredths                            *)

max3(a, b, c) == Max({a, b, c})

\* tone_label taking the maximum over positive and negative only
tone_label_without_mixed(neutral, positive, negative, mixed) ==
    IF neutral >= 60 THEN "objective"
    ELSE IF max3(positive, negative, negative) - neutral > 15 THEN "subjective"
    ELSE "balanced"

tone_label(neutral, positive, negative, mixed) ==
    IF neutral >= 60 THEN "objective"
    ELSE IF max3(positive, negative, mixed) - neutral > 15 THEN "subjective"
    ELSE "balanced"

analyze_tone(text, scores) ==
    LET neutral  == items_get(scores, "Neutral", 0)
        positive == items_get(scores, "Positive", 0)
        negative == items_get(scores, "Negative", 0)
        mixed    == items_get(scores, "Mixed", 0)
    IN  [raised         |-> "None",
         raw            |-> scores,
         classification |-> tone_label(neutral, positive, negative, mixed)]

-----------------------------------------------------------------------------
(* analyze_clarity                                                         *)

complex_markers == <<"however", "although", "nevertheless", "furthermore", "meanwhile">>

\* sum(text.count(m) for m in markers)
marker_count(text_lower, markers) ==
    sum_seq([i \in 1..Len(markers) |-> str_count(text_lower, markers[i])])

\* any(m in s for m in markers)
any_marker(s_lower, markers) ==
    \E i \in 1..Len(markers) : contains(s_lower, markers[i])

min2(a, b) == IF a <= b THEN a ELSE b

max2(a, b) == IF a >= b THEN a ELSE b

\* length_penalty without the cap of 30
length_penalty_uncapped(total, n) ==
    IF total > 25 * n THEN (total - 25 * n) * 2 ELSE 0

\* transition_penalty charged for any marker at all
transition_penalty_any_marker(complex_count, n_sentences) ==
    IF complex_count > 0 THEN min2(20, complex_count * 5) ELSE 0

\* "if avg_length > 25: clarity_score -= min(30, (avg_length - 25) * 2)" with
\* avg_length = total / n; the result is the penalty times n
length_penalty(total, n) ==
    IF total > 25 * n THEN min2(30 * n, (total - 25 * n) * 2) ELSE 0

\* "if complex_count > len(sentences) / 3: clarity_score -= min(20, complex_count * 5)"
transition_penalty(complex_count, n_sentences) ==
    IF 3 * complex_count > n_sentences THEN min2(20, complex_count * 5) ELSE 0

\* the sentences s with len(s.split()) > 30 or a complex marker in s.lower()
RECURSIVE unclear_from(_, _)
unclear_from(sentences, i) ==
    IF i > Len(sentences) THEN <<>>
    ELSE LET s == sentences[i]
         IN  IF len_split(s) > 30 \/ any_marker(lower(s), complex_markers)
             THEN <<strip(s)>> \o unclear_from(sentences, i + 1)
             ELSE unclear_from(sentences, i + 1)

analyze_clarity(text) ==
    LET sentences == sent_tokenize(text)
        lengths == [i \in 1..Len(sentences) |-> len_split(sentences[i])]
        \* avg_length = mean(lengths) if lengths else 0, held as total / n
        total == sum_seq(lengths)
        n == IF Len(lengths) > 0 THEN Len(lengths) ELSE 1
        complex_count == marker_count(lower(text), complex_markers)
        clarity_score == 100 * n - length_penalty(total, n)
                                 - n * transition_penalty(complex_count, Len(sentences))
        unclear_segments == unclear_from(sentences, 1)
    IN  [raised                   |-> "None",
         score                    |-> [num |-> max2(0, min2(100 * n, clarity_score)),
                                       den |-> n],
         avg_sentence_length      |-> round_half_even(10 * total, n),
         complex_transition_count |-> complex_count,
         unclear_segments         |-> SubSeq(unclear_segments, 1,
                                             min2(3, Len(unclear_segments)))]

-----------------------------------------------------------------------------
(* analyze_confidence                                                      *)

confidence_markers == <<"definitely", "certainly", "clearly", "strongly", "confident", "sure">>

uncertainty_markers == <<"maybe", "perhaps", "kind of", "sort of", "i think", "i guess", "possibly">>

\* confidence_points with the bonus subtracted
confidence_points_bonus_subtracted(confident_count, uncertain_count, positive_score, negative_score) ==
    LET base == 100
        after_uncertain == IF uncertain_count > 0
                           THEN base - min2(40, uncertain_count * 10)
                           ELSE base
        after_confident == IF confident_count > 0
                           THEN after_uncertain - min2(20, confident_count * 5)
                           ELSE after_uncertain
    IN  100 * after_confident + (positive_score - negative_score) * 20

\* clamp_score without the upper limit
clamp_score_no_ceiling(points) == max2(0, points)

\* lines 128-141: the score before clamping, in hundredths of a point
confidence_points(confident_count, uncertain_count, positive_score, negative_score) ==
    LET base == 100
        after_uncertain == IF uncertain_count > 0
                           THEN base - min2(40, uncertain_count * 10)
                           ELSE base
        after_confident == IF confident_count > 0
                           THEN after_uncertain + min2(20, confident_count * 5)
                           ELSE after_uncertain
    IN  100 * after_confident + (positive_score - negative_score) * 20

\* max(0, min(100, confidence_score)), in hundredths
clamp_score(points) == max2(0, min2(100 * 100, points))

\* the loop collecting the sentences with an uncertainty marker, at most 3
RECURSIVE uncertain_from(_, _, _)
uncertain_from(sentences, i, found) ==
    IF i > Len(sentences) THEN found
    ELSE IF any_marker(lower(sentences[i]), uncertainty_markers)
         THEN LET more == Append(found, strip(sentences[i]))
              IN  IF Len(more) >= 3 THEN more
                  ELSE uncertain_from(sentences, i + 1, more)
         ELSE uncertain_from(sentences, i + 1, found)

\* lines 121-125 and 143-151: what analyze_confidence reads off the text
counted_markers(text) ==
    [confident_count    |-> marker_count(lower(text), confidence_markers),
     uncertain_count    |-> marker_count(lower(text), uncertainty_markers),
     uncertain_examples |-> uncertain_from(sent_tokenize(text), 1, <<>>)]

\* lines 127-141 and 153-158: the report for the counts and the tone scores
confidence_report(counted, tone_scores) ==
    LET positive_score == items_get(tone_scores, "Positive", 0)
        negative_score == items_get(tone_scores, "Negative", 0)
    IN  [raised              |-> "None",
         score               |-> clamp_score(confidence_points(counted.confident_count,
                                     counted.uncertain_count, positive_score,
                                     negative_score)),
         confidence_markers  |-> counted.confident_count,
         uncertainty_markers |-> counted.uncertain_count,
         uncertain_examples  |-> counted.uncertain_examples]

analyze_confidence(text, tone_scores) ==
    confidence_report(counted_markers(text), tone_scores)

-----------------------------------------------------------------------------
(* find_filler_examples                                                    *)

\* re.search(pattern, s_lower) for the pattern of filler f
filler_search(f, s_lower) == contains(s_lower, filler_pattern(f))

RECURSIVE examples_from(_, _, _, _, _)
examples_from(sentences, i, filler_list, max_examples, examples) ==
    IF i > Len(sentences) THEN examples
    ELSE LET s_lower == lower(sentences[i])
             snippet == strip(sentences[i])
             hit == \E k \in 1..Len(filler_list) : filler_search(filler_list[k], s_lower)
             more == IF hit /\ snippet # "" /\ snippet \notin Range(examples)
                     THEN Append(examples, snippet)
                     ELSE examples
         IN  IF Len(more) >= max_examples THEN more
             ELSE examples_from(sentences, i + 1, filler_list, max_examples, more)

find_filler_examples(text, filler_list, max_examples) ==
    examples_from(sent_tokenize(text), 1, filler_list, max_examples, <<>>)

-----------------------------------------------------------------------------
(* analyzeExercise.py: the focus branches. A feedback string is held by    *)
(* its fixed wording, without the interpolated numbers.                    *)

default_pace_range == [min |-> 120, max |-> 150]

analyze_pace_exercise(text, duration_seconds, constraints) ==
    LET pace == calculate_pace(text, duration_seconds)
        pace_range == dict_get(constraints, "pace_range", default_pace_range)
        min_pace == dict_get(pace_range, "min", 120)
        max_pace == dict_get(pace_range, "max", 150)
    IN  IF pace.raised # "None" THEN [raised |-> pace.raised]
        ELSE [raised       |-> "None",
              pace_wpm     |-> pace.wpm,
              target_range |-> <<min_pace, max_pace>>,
              status       |-> IF 10 * min_pace <= pace.wpm /\ pace.wpm <= 10 * max_pace
                               THEN "on_target" ELSE "needs_work",
              feedback     |->
                  IF pace.wpm < 10 * min_pace
                  THEN <<"Your pace is a bit slow", "Practice with a timer">>
                  ELSE IF pace.wpm > 10 * max_pace
                  THEN <<"Your pace is a bit fast", "Take deliberate pauses">>
                  ELSE <<"Great job! Your pace is within the target range",
                         "Keep maintaining this comfortable speaking rate">>]

analyze_fillers_exercise(text, constraints) ==
    LET filler_info == count_filler_words(text)
        max_fillers == dict_get(constraints, "max_fillers", 3)
        total_fillers == filler_info.total
        \* iterating the per_filler dict yields its keys in insertion order
        examples == find_filler_examples(text, fillers, 3)
    IN  IF total_fillers # 0 /\ total_fillers > max_fillers /\ examples # <<>>
        THEN \* ex['example'] on a str
             [raised |-> "TypeError"]
        ELSE [raised       |-> "None",
              filler_count |-> total_fillers,
              target_max   |-> max_fillers,
              per_filler   |-> filler_info.per_filler,
              status       |-> IF total_fillers <= max_fillers
                               THEN "on_target" ELSE "needs_work",
              feedback     |->
                  IF total_fillers = 0
                  THEN <<"Excellent! You didn't use any filler words",
                         "Keep up this clean speaking style">>
                  ELSE IF total_fillers > max_fillers
                  THEN <<"Found filler words", "Try to reduce filler words">>
                  ELSE <<"Found filler words">>]

\* lines 92-102: the status and the wording chosen for a clarity score
clarity_verdict(score, min_score) ==
    [status   |-> IF score.num >= min_score * score.den
                  THEN "on_target" ELSE "needs_work",
     feedback |-> IF score.num >= 90 * score.den
                  THEN <<"Excellent clarity score">>
                  ELSE IF score.num >= min_score * score.den
                  THEN <<"Good clarity score", "Consider shorter sentences">>
                  ELSE <<"Your clarity score is below the aim",
                         "Try breaking down complex sentences">>]

analyze_clarity_exercise(text, constraints) ==
    LET clarity_info == analyze_clarity(text)
        min_score == dict_get(constraints, "min_clarity_score", 70)
        score == clarity_info.score
        verdict == clarity_verdict(score, min_score)
    IN  IF "details" \notin DOMAIN clarity_info
        THEN \* clarity_info["details"] in the returned dict
             [raised |-> "KeyError"]
        ELSE [raised        |-> "None",
              clarity_score |-> score,
              target_min    |-> min_score,
              details       |-> clarity_info["details"],
              status        |-> verdict.status,
              feedback      |-> verdict.feedback]

\* lines 119-129: the status and the wording chosen for a confidence score
\* (in hundredths of a point)
confidence_verdict(score, min_score) ==
    [status   |-> IF score >= 100 * min_score THEN "on_target" ELSE "needs_work",
     feedback |-> IF score >= 100 * 90
                  THEN <<"Excellent confidence level">>
                  ELSE IF score >= 100 * min_score
                  THEN <<"Good confidence score", "Try using more assertive language">>
                  ELSE <<"Your confidence score is below the aim",
                         "Try reducing hedging words">>]

\* lines 116-139, for the report analyze_confidence returned
confidence_exercise_of(confidence_info, constraints) ==
    LET min_score == dict_get(constraints, "min_confidence_score", 70)
        score == confidence_info.score
        verdict == confidence_verdict(score, min_score)
    IN  IF "details" \notin DOMAIN confidence_info
        THEN \* confidence_info["details"], in the remedial branch or in the
             \* returned dict
             [raised |-> "KeyError"]
        ELSE [raised           |-> "None",
              confidence_score |-> score,
              target_min       |-> min_score,
              details          |-> confidence_info["details"],
              status           |-> verdict.status,
              feedback         |->
                  verdict.feedback
                  \o (IF score < 100 * 90 /\ score < 100 * min_score
                         /\ confidence_info["details"]["hedging_count"] > 0
                      THEN <<"Replace phrases like 'kind of'">> ELSE <<>>)]

analyze_confidence_exercise(text, scores, constraints) ==
    confidence_exercise_of(
        analyze_confidence(text, analyze_tone(text, scores).raw), constraints)

\* max(tone_scores.items(), key=lambda x: x[1])[0]: the first item of the
\* largest value
primary_of(tone_scores) ==
    LET best == Max({tone_scores[i][2] : i \in 1..Len(tone_scores)})
    IN  tone_scores[Min({i \in 1..Len(tone_scores) : tone_scores[i][2] = best})][1]

default_required_tones == <<"POSITIVE">>

analyze_tone_exercise(text, scores, constraints) ==
    LET tone_info == analyze_tone(text, scores)
        target_tones == dict_get(constraints, "required_tones", default_required_tones)
        tone_scores == tone_info.raw
        primary_tone == IF tone_scores # <<>> THEN primary_of(tone_scores) ELSE "NEUTRAL"
        hit == primary_tone \in Range(target_tones)
    IN  [raised              |-> "None",
         tone_classification |-> primary_tone,
         target_tones        |-> target_tones,
         tone_scores         |-> tone_scores,
         status              |-> IF hit THEN "on_target" ELSE "needs_work",
         feedback            |->
             <<"Your primary tone is " \o lower(primary_tone)>>
             \o (IF hit THEN <<"Great job hitting the target emotional tone">>
                 ELSE <<"Aim for a more fitting tone">>
                      \o (IF "POSITIVE" \in Range(target_tones)
                             /\ items_get(tone_scores, "POSITIVE", 0) < 50
                          THEN <<"Try using more optimistic and encouraging language">>
                          ELSE <<>>))]

-----------------------------------------------------------------------------
(* analyzePresentation.lambda_handler, from the downloaded transcript on   *)
(* (lines 278-377). body_duration is                                       *)
(*   body.get("durationSeconds") or body.get("duration") or None           *)

pace_exercise(pace) ==
    [issue      |-> "pace",
     wpm        |-> pace,
     suggestion |-> IF pace < 10 * 100 THEN "Try increasing pace slightly"
                    ELSE IF pace > 10 * 160 THEN "Practice speaking at a slower pace"
                    ELSE "Pace is within typical speaking range"]

tone_exercise(tone_info) ==
    [issue          |-> "tone",
     classification |-> tone_info.classification,
     raw_scores     |-> tone_info.raw,
     suggestion     |-> IF tone_info.classification # "objective"
                        THEN "Aim for an objective delivery"
                        ELSE "Tone is predominantly objective"]

\* [f for f, c in filler_info["per_filler"].items() if c > 0]
fillers_found(per_filler) ==
    LET keep == {i \in 1..Len(fillers) : per_filler[fillers[i]] > 0}
    IN  [k \in 1..Cardinality(keep) |->
            fillers[CHOOSE i \in keep : Cardinality({j \in keep : j < i}) = k - 1]]

analysis_failed(exception) ==
    [statusCode |-> 500, message |-> "Analysis failed", error |-> exception]

\* lines 300-301: the sentences quoted for the filler words found
handler_examples(transcript_text, filler_info) ==
    LET fillers_list == fillers_found(filler_info.per_filler)
    IN  find_filler_examples(transcript_text,
                             IF fillers_list # <<>> THEN fillers_list
                             ELSE <<"um", "uh", "like">>, 4)

\* lines 303-374: the response built from the scorers' results
build_feedback(transcript_text, word_count, duration_seconds, filler_info, pace, tone_info, clarity_info, confidence_info, filler_examples) ==
    LET exercises ==
            (IF filler_info.total > 0
             THEN <<[issue      |-> "filler_words",
                     total      |-> filler_info.total,
                     per_filler |-> filler_info.per_filler,
                     examples   |-> filler_examples]>>
             ELSE <<>>)
            \o <<pace_exercise(pace.wpm), tone_exercise(tone_info)>>
            \o (IF clarity_info.score.num < 80 * clarity_info.score.den
                THEN <<[issue    |-> "clarity",
                        score    |-> clarity_info.score,
                        examples |-> clarity_info.unclear_segments]>>
                ELSE <<>>)
            \o (IF confidence_info.score < 100 * 80
                THEN <<[issue    |-> "confidence",
                        score    |-> confidence_info.score,
                        examples |-> confidence_info.uncertain_examples]>>
                ELSE <<>>)
    IN  [statusCode |-> 200,
         feedback   |->
             [tone         |-> tone_info,
              pace_wpm     |-> pace.wpm,
              word_count   |-> word_count,
              \* round(duration_seconds, 1) if duration_seconds else None
              estimated_duration_seconds |->
                  IF truthy(duration_seconds)
                  THEN <<round_half_even(10 * duration_seconds[1].num,
                                         duration_seconds[1].den)>>
                  ELSE None,
              filler_words |-> filler_info,
              clarity      |-> [score |-> clarity_info.score, details |-> clarity_info],
              confidence   |-> [score |-> confidence_info.score,
                                details |-> confidence_info],
              suggested_exercises |-> exercises,
              transcript   |-> transcript_text]]

\* lines 281-292: the duration of the request body, or the estimate at 150
\* words per minute
settle_duration(word_count, body_duration) ==
    LET \* float(duration_seconds) if duration_seconds else None
        given == IF truthy(body_duration) THEN body_duration ELSE None
    IN  IF ~truthy(given) \/ ~is_positive(given)
        THEN Some(word_count * 60, 150)
        ELSE given

\* lines 281-377, given what count_filler_words (line 279), analyze_clarity
\* (line 296), analyze_confidence (line 297, its reading of the text) and
\* find_filler_examples (line 301) get from the transcript
scored_transcript(transcript_text, body_duration, scores, filler_info, clarity_info, counted, filler_examples) ==
    LET word_count == len_split(transcript_text)
        duration_seconds == settle_duration(word_count, body_duration)
        pace == calculate_pace(transcript_text, duration_seconds)
        tone_info == analyze_tone(transcript_text, scores)
    IN  IF pace.raised # "None" THEN analysis_failed(pace.raised)
        ELSE build_feedback(transcript_text, word_count, duration_seconds,
                            filler_info, pace, tone_info, clarity_info,
                            confidence_report(counted, tone_info.raw),
                            filler_examples)

analyze_transcript(transcript_text, body_duration, scores) ==
    scored_transcript(transcript_text, body_duration, scores,
                      count_filler_words(transcript_text),
                      analyze_clarity(transcript_text),
                      counted_markers(transcript_text),
                      handler_examples(transcript_text,
                                       count_filler_words(transcript_text)))

\* f"transcription-{int(time.time())}"
job_name(now) == "transcription-" \o ToString(now)

\* presentation_run with the job name copied into the feedback record
presentation_run_reporting_job(transcript_text, body_duration, scores, now) ==
    LET response == analyze_transcript(transcript_text, body_duration, scores)
    IN  [job_name |-> job_name(now),
         response |-> IF response.statusCode = 200
                      THEN [statusCode |-> 200,
                            feedback   |-> response.feedback
                                           @@ [job_name |-> job_name(now)]]
                      ELSE response]

\* one run of the handler from the start of the transcription job (line 255)
\* on, at clock reading now: the job it names, and the response it returns
presentation_run(transcript_text, body_duration, scores, now) ==
    [job_name |-> job_name(now),
     response |-> analyze_transcript(transcript_text, body_duration, scores)]

-----------------------------------------------------------------------------
(* The scorers a piece of code invokes, in the order of the calls          *)

\* exercise_calls with the classifier consulted at the start of every branch
exercise_calls_classifying_first(focus_area, text, constraints) ==
    <<"analyze_tone">>
    \o (IF focus_area = "pace" THEN <<"calculate_pace">>
        ELSE IF focus_area = "fillers" THEN <<"count_filler_words">>
        ELSE IF focus_area = "clarity" THEN <<"analyze_clarity">>
        ELSE IF focus_area = "confidence" THEN <<"analyze_confidence">>
        ELSE <<>>)

\* analyzeExercise.py, the calls of the focus branches: line 31 (pace),
\* lines 58 and 72 (fillers), line 88 (clarity), lines 114-115 (confidence),
\* line 143 (tone)
exercise_calls(focus_area, text, constraints) ==
    IF focus_area = "pace" THEN <<"calculate_pace">>
    ELSE IF focus_area = "fillers"
    THEN LET total_fillers == count_filler_words(text).total
             max_fillers == dict_get(constraints, "max_fillers", 3)
         IN  <<"count_filler_words">>
             \o (IF total_fillers # 0 /\ total_fillers > max_fillers
                 THEN <<"find_filler_examples">> ELSE <<>>)
    ELSE IF focus_area = "clarity" THEN <<"analyze_clarity">>
    ELSE IF focus_area = "confidence" THEN <<"analyze_tone", "analyze_confidence">>
    ELSE IF focus_area = "tone" THEN <<"analyze_tone">>
    ELSE <<>>

\* analyzePresentation.lambda_handler, the calls of lines 279-301
presentation_calls(response) ==
    IF response.statusCode = 200
    THEN <<"count_filler_words", "calculate_pace", "analyze_tone",
           "analyze_clarity", "analyze_confidence", "find_filler_examples">>
    ELSE <<"count_filler_words", "calculate_pace">>

-----------------------------------------------------------------------------
(* analyzeExercise.lambda_handler, from the downloaded transcript on       *)
(* (lines 237-290). A Python value whose type the code depends on is a     *)
(* record of its type and its value.                                       *)

focus_areas == {"pace", "fillers", "clarity", "confidence", "tone"}

\* analyzePresentation.download_transcript (lines 23-31), for a response
\* that carries a transcript: data["results"]["transcripts"][0]["transcript"]
download_transcript(text) == [type |-> "str", value |-> text]

\* lines 244-258: the duration of the transcription, the estimate at 130
\* words per minute when it is not positive, then
\*   float(body.get("durationSeconds") or body.get("duration", 0))
\* when that is not positive, then the estimate again
exercise_duration(word_count, service_duration, body_duration) ==
    LET estimate == Some(word_count * 60, 130)
        validated == IF ~is_positive(service_duration) THEN estimate
                     ELSE service_duration
        requested == IF is_positive(validated) THEN validated
                     ELSE IF truthy(body_duration) THEN body_duration
                     ELSE Some(0, 1)
    IN  IF is_positive(requested) THEN requested ELSE estimate

\* lines 260-273
exercise_analysis(focus_area, transcript_text, duration_seconds, constraints, scores) ==
    IF focus_area = "pace"
    THEN analyze_pace_exercise(transcript_text, duration_seconds, constraints)
    ELSE IF focus_area = "fillers"
    THEN analyze_fillers_exercise(transcript_text, constraints)
    ELSE IF focus_area = "clarity"
    THEN analyze_clarity_exercise(transcript_text, constraints)
    ELSE IF focus_area = "confidence"
    THEN analyze_confidence_exercise(transcript_text, scores, constraints)
    ELSE analyze_tone_exercise(transcript_text, scores, constraints)

\* lines 237-290: the response, and the scorers called on the way
exercise_run(focus_area, transcript_data, body_duration, constraints, scores) ==
    IF transcript_data.type = "str"
    THEN \* line 238: transcript_data["transcript"] on a str
         [response |-> analysis_failed("TypeError"), calls |-> <<>>]
    ELSE LET transcript_text == transcript_data.value.transcript
             word_count == len_split(transcript_text)
             duration_seconds == exercise_duration(word_count,
                                                   transcript_data.value.duration,
                                                   body_duration)
             analysis_result == exercise_analysis(focus_area, transcript_text,
                                                  duration_seconds, constraints,
                                                  scores)
             calls == exercise_calls(focus_area, transcript_text, constraints)
         IN  IF analysis_result.raised # "None"
             THEN [response |-> analysis_failed(analysis_result.raised),
                   calls    |-> calls]
             ELSE [response |->
                       [statusCode |-> 200,
                        feedback   |->
                            [focus_area       |-> focus_area,
                             transcript       |-> transcript_text,
                             word_count       |-> word_count,
                             \* round(duration_seconds, 1), in tenths
                             duration_seconds |->
                                 round_half_even(10 * duration_seconds[1].num,
                                                 duration_seconds[1].den),
                             analysis         |-> analysis_result]],
                   calls    |-> calls]

-----------------------------------------------------------------------------

(* The constraint evaluator (specification 4.7). A metrics record carries  *)
(* the filler report, the pace in tenths of a word per minute, the         *)
(* estimated duration in seconds and the confidence score in points. A     *)
(* constraint set is a dict; a key it lacks is not checked.                *)

violation(field, expected, actual, suggestion) ==
    [field |-> field, expected |-> expected, actual |-> actual,
     suggestion |-> suggestion]

\* |estimated_duration - target| > tolerance, the tolerance 3 s by default
duration_check(metrics, constraints) ==
    LET target == constraints["duration"]
        tolerance == dict_get(constraints, "duration_tolerance", 3)
    IN  IF "duration" \in DOMAIN constraints
           /\ (metrics.estimated_duration - target > tolerance
               \/ target - metrics.estimated_duration > tolerance)
        THEN <<violation("duration", <<target, tolerance>>,
                         metrics.estimated_duration,
                         "Adjust the length of your talk to the target duration")>>
        ELSE <<>>

\* max_fillers_check failing a total that equals the maximum as well
max_fillers_check_inclusive(metrics, constraints) ==
    IF "max_fillers" \in DOMAIN constraints
       /\ metrics.fillers.total >= constraints["max_fillers"]
    THEN <<violation("fillers", constraints["max_fillers"], metrics.fillers.total,
                     "Pause instead of using filler words")>>
    ELSE <<>>

\* total filler count > max
max_fillers_check(metrics, constraints) ==
    IF "max_fillers" \in DOMAIN constraints
       /\ metrics.fillers.total > constraints["max_fillers"]
    THEN <<violation("fillers", constraints["max_fillers"], metrics.fillers.total,
                     "Pause instead of using filler words")>>
    ELSE <<>>

\* the phrases of a list whose presence in the lower-cased transcript is
\* as wanted, in the order of the list
phrases_where(transcript_lower, phrases, wanted) ==
    LET keep == {i \in 1..Len(phrases) :
                    contains(transcript_lower, lower(phrases[i])) = wanted}
    IN  [k \in 1..Cardinality(keep) |->
            phrases[CHOOSE i \in keep : Cardinality({j \in keep : j < i}) = k - 1]]

\* every phrase of the list absent from the transcript is listed as missing
required_phrases_check(transcript_lower, constraints) ==
    LET missing == phrases_where(transcript_lower,
                                 constraints["required_phrases"], FALSE)
    IN  IF "required_phrases" \in DOMAIN constraints /\ missing # <<>>
        THEN <<violation("required_phrases", constraints["required_phrases"],
                         missing, "Work the required phrases into your talk")>>
        ELSE <<>>

\* every phrase of the list present in the transcript is listed
forbidden_phrases_check(transcript_lower, constraints) ==
    LET used == phrases_where(transcript_lower,
                              constraints["forbidden_phrases"], TRUE)
    IN  IF "forbidden_phrases" \in DOMAIN constraints /\ used # <<>>
        THEN <<violation("forbidden_phrases", constraints["forbidden_phrases"],
                         used, "Leave the forbidden phrases out")>>
        ELSE <<>>

\* wpm outside [min, max], 100 and 160 by default
pace_range_check(metrics, constraints) ==
    LET min_pace == dict_get(constraints["pace_range"], "min", 100)
        max_pace == dict_get(constraints["pace_range"], "max", 160)
    IN  IF "pace_range" \in DOMAIN constraints
           /\ (metrics.pace < 10 * min_pace \/ metrics.pace > 10 * max_pace)
        THEN <<violation("pace", <<min_pace, max_pace>>, metrics.pace,
                         "Bring your pace into the target range")>>
        ELSE <<>>

\* confidence score below the threshold
min_confidence_check(metrics, constraints) ==
    IF "min_confidence_score" \in DOMAIN constraints
       /\ metrics.confidence.score < constraints["min_confidence_score"]
    THEN <<violation("confidence", constraints["min_confidence_score"],
                     metrics.confidence.score,
                     "Use more definitive statements")>>
    ELSE <<>>

\* every check of a present key is run, each failure appends its violation;
\* respected iff none was appended
evaluate_constraints(transcript_lower, metrics, constraints) ==
    LET violations == duration_check(metrics, constraints)
                      \o max_fillers_check(metrics, constraints)
                      \o required_phrases_check(transcript_lower, constraints)
                      \o forbidden_phrases_check(transcript_lower, constraints)
                      \o pace_range_check(metrics, constraints)
                      \o min_confidence_check(metrics, constraints)
    IN  [respected |-> Len(violations) = 0, violations |-> violations]

-----------------------------------------------------------------------------

(* analyzePresentation.parse_s3_url (lines 178-235)                        *)

\* s.startswith(prefix)
startswith(s, prefix) ==
    Len(s) >= Len(prefix) /\ SubSeq(s, 1, Len(prefix)) = prefix

\* s.split(sep, 1): s alone when sep does not occur in it, else what stands
\* before and after the first occurrence
split_once(s, sep) ==
    LET occ == occurrences(s, sep)
    IN  IF occ = {} THEN <<s>>
        ELSE <<SubSeq(s, 1, Min(occ) - 1),
               SubSeq(s, Min(occ) + Len(sep), Len(s))>>

parsed(bucket, key) == [raised |-> "None", bucket |-> bucket, key |-> key]

\* lines 192-196
parse_s3_scheme(url_no_q) ==
    LET rest == SubSeq(url_no_q, Len("s3://") + 1, Len(url_no_q))
        parts == split_once(rest, "/")
    IN  IF Len(parts) # 2 \/ parts[1] = "" \/ parts[2] = ""
        THEN [raised |-> "ValueError"]
        ELSE parsed(parts[1], parts[2])

\* lines 199-204
host_path_of(url_no_q) ==
    IF startswith(url_no_q, "https://")
    THEN SubSeq(url_no_q, Len("https://") + 1, Len(url_no_q))
    ELSE IF startswith(url_no_q, "http://")
    THEN SubSeq(url_no_q, Len("http://") + 1, Len(url_no_q))
    ELSE url_no_q

\* lines 208-214
parse_virtual_hosted(host_path) ==
    LET parts == split_once(host_path, ".amazonaws.com/")
        bucket == split_once(parts[1], ".s3")[1]
    IN  IF bucket = "" \/ parts[2] = "" THEN [raised |-> "ValueError"]
        ELSE parsed(bucket, parts[2])

\* lines 218-231
parse_path_style(host_path) ==
    LET parts == split_once(host_path, ".amazonaws.com/")
        rest == IF Len(parts) = 2 THEN parts[2]
                ELSE IF contains(host_path, "/")
                THEN split_once(host_path, "/")[2] ELSE ""
        segs == split_once(rest, "/")
    IN  IF rest = "" \/ Len(segs) # 2 THEN [raised |-> "ValueError"]
        ELSE parsed(segs[1], segs[2])

parse_s3_url(url) ==
    LET url_no_q == split_once(url, "?")[1]
        host_path == host_path_of(url_no_q)
    IN  IF startswith(url_no_q, "s3://") THEN parse_s3_scheme(url_no_q)
        ELSE IF contains(host_path, ".s3.") /\ contains(host_path, ".amazonaws.com/")
        THEN parse_virtual_hosted(host_path)
        ELSE IF startswith(host_path, "s3.amazonaws.com/")
                \/ (startswith(host_path, "s3.")
                    /\ contains(host_path, ".amazonaws.com/"))
        THEN parse_path_style(host_path)
        ELSE [raised |-> "ValueError"]

-----------------------------------------------------------------------------

(* The three Lambda handlers step by step, and the API endpoints of        *)
(* main.py that wrap them. The body of an event is a record of its type    *)
(* ("dict"; a str that is a "json object", a "json array" or "not json";   *)
(* or "missing") and of the fields of the object it holds. A response is   *)
(* the record that json.dumps encodes, with the statusCode beside it.      *)

\* main.py lines 56-62, 159-163 and 186-191: the event an endpoint builds
\* from the request it received
endpoint_event(handler, request) ==
    IF handler = "upload"
    THEN [body |-> [type   |-> "json object",
                    fields |-> [fileName    |-> request.filename,
                                fileType    |-> request.content_type,
                                fileContent |-> [base64 |-> TRUE,
                                                 bytes  |-> request.content]]]]
    ELSE IF handler = "presentation"
    THEN [body |-> [type   |-> "json object",
                    fields |-> [recordingUrl |-> request.recording_url]]]
    ELSE [body |-> [type   |-> "dict",
                    fields |-> [recordingUrl |-> request.recording_url,
                                constraints  |-> request.constraints]]]

\* main.py lines 67-74, 167-173 and 197-202: the HTTPException raised for a
\* statusCode other than 200 is raised inside the try block, and
\* `except Exception` turns it into HTTPException(500, str(e))
endpoint_answer(result) ==
    LET tried == IF result.statusCode # 200
                 THEN [raised |-> "HTTPException",
                       status_code |-> result.statusCode, detail |-> result]
                 ELSE [raised |-> "None", status_code |-> 200, body |-> result]
    IN  IF tried.raised # "None"
        THEN [status_code |-> 500, detail |-> tried.raised]
        ELSE [status_code |-> 200, body |-> tried.body]

bad_request(message) == [statusCode |-> 400, message |-> message]

upload_failed(exception) ==
    [statusCode |-> 500, message |-> "Upload failed", error |-> exception]

\* The checks of a handler give [ok |-> TRUE, fields |-> the fields of the
\* body] when they passed, and [ok |-> FALSE, response |-> what the handler
\* returns] when one did not.

\* exercise_validate without the check of the focus area
exercise_validate_any_focus(body) ==
    LET fields == IF body.type = "missing" THEN empty_dict ELSE body.fields
    IN  IF body.type = "not json"
        THEN [ok |-> FALSE, response |-> bad_request("Invalid JSON in request body")]
        ELSE IF body.type = "json array"
        THEN [ok |-> FALSE, response |-> bad_request("Request body must be an object")]
        ELSE IF dict_get(fields, "recordingUrl", "") = ""
        THEN [ok |-> FALSE, response |-> bad_request("recordingUrl is required")]
        ELSE IF parse_s3_url(fields["recordingUrl"]).raised # "None"
        THEN [ok |-> FALSE, response |-> bad_request("Invalid S3 URL format")]
        ELSE [ok |-> TRUE, fields |-> fields]

\* analyzeExercise.lambda_handler lines 170-210
exercise_validate(body) ==
    LET fields == IF body.type = "missing" THEN empty_dict ELSE body.fields
    IN  IF body.type = "not json"
        THEN [ok |-> FALSE, response |-> bad_request("Invalid JSON in request body")]
        ELSE IF body.type = "json array"
        THEN [ok |-> FALSE, response |-> bad_request("Request body must be an object")]
        ELSE IF dict_get(fields, "recordingUrl", "") = ""
        THEN [ok |-> FALSE, response |-> bad_request("recordingUrl is required")]
        ELSE IF dict_get(fields, "focus_area", "") \notin focus_areas
        THEN [ok |-> FALSE, response |-> bad_request("Invalid focus area")]
        ELSE IF parse_s3_url(fields["recordingUrl"]).raised # "None"
        THEN [ok |-> FALSE, response |-> bad_request("Invalid S3 URL format")]
        ELSE [ok |-> TRUE, fields |-> fields]

\* analyzePresentation.lambda_handler lines 240-249:
\* json.loads(event.get("body", "{}")), body.get("recordingUrl")
presentation_validate(body) ==
    LET fields == IF body.type = "missing" THEN empty_dict ELSE body.fields
    IN  IF body.type = "dict" THEN [ok |-> FALSE, response |-> analysis_failed("TypeError")]
        ELSE IF body.type = "not json"
        THEN [ok |-> FALSE, response |-> analysis_failed("JSONDecodeError")]
        ELSE IF body.type = "json array"
        THEN [ok |-> FALSE, response |-> analysis_failed("AttributeError")]
        ELSE IF dict_get(fields, "recordingUrl", "") = ""
        THEN [ok |-> FALSE, response |-> bad_request("recordingUrl missing")]
        ELSE IF parse_s3_url(fields["recordingUrl"]).raised # "None"
        THEN [ok |-> FALSE, response |-> bad_request("Invalid S3 URL format. Expected formats")]
        ELSE [ok |-> TRUE, fields |-> fields]

\* upload_validate with the reading of the body outside the try block: the
\* exception leaves the handler
upload_validate_outside_try(body) ==
    IF body.type = "json object"
       /\ {"fileName", "fileType", "fileContent"} \subseteq DOMAIN body.fields
       /\ body.fields["fileContent"].base64
    THEN [ok |-> TRUE, fields |-> body.fields]
    ELSE [ok |-> FALSE, response |-> [raised |-> "Exception"]]

\* uploadRecording.lambda_handler lines 13-18: json.loads(event['body']),
\* the three keys, base64.b64decode
upload_validate(body) ==
    IF body.type = "missing" THEN [ok |-> FALSE, response |-> upload_failed("KeyError")]
    ELSE IF body.type = "dict" THEN [ok |-> FALSE, response |-> upload_failed("TypeError")]
    ELSE IF body.type = "not json" THEN [ok |-> FALSE, response |-> upload_failed("JSONDecodeError")]
    ELSE IF body.type = "json array" THEN [ok |-> FALSE, response |-> upload_failed("TypeError")]
    ELSE IF ~({"fileName", "fileType", "fileContent"} \subseteq DOMAIN body.fields)
    THEN [ok |-> FALSE, response |-> upload_failed("KeyError")]
    ELSE IF ~body.fields["fileContent"].base64
    THEN [ok |-> FALSE, response |-> upload_failed("binascii.Error")]
    ELSE [ok |-> TRUE, fields |-> body.fields]

\* the job name of a handler at clock reading now: analyzePresentation.py
\* line 255, analyzeExercise.py line 213
job_name_at(handler, now) ==
    IF handler = "presentation" THEN job_name(now)
    ELSE "exercise-transcription-" \o ToString(now)

\* job_done leaving the loop as soon as the job is no longer queued
job_done_when_started(job_status) == job_status # "QUEUED"

\* analyzePresentation.py line 267, analyzeExercise.py line 225
job_done(job_status) == job_status \in {"COMPLETED", "FAILED"}

\* body.get("durationSeconds") or body.get("duration") or None
body_duration_of(fields) ==
    LET first == dict_get(fields, "durationSeconds", None)
    IN  IF truthy(first) THEN first ELSE dict_get(fields, "duration", None)

\* uploadRecording.py lines 6-7 and 22: f"{FOLDER}{file_name}"
storage_key(file_name) == "presentations/" \o file_name

\* uploadRecording.py lines 29-33: the pre-signed URL of an object
presigned_url(key) ==
    "https://student-app-recordings-2025.s3.amazonaws.com/" \o key
    \o "?X-Amz-Expires=3600"

\* the response of the presentation handler beside the calls that made it
with_calls(response) == [response |-> response, calls |-> presentation_calls(response)]

\* comprehend.detect_sentiment raising inside analyze_tone, which has no
\* try block of its own (analyzePresentation.py lines 62-80): the handler
\* stops at that call and answers 500
classified(run, classifier_up) ==
    LET asked == {k \in 1..Len(run.calls) : run.calls[k] = "analyze_tone"}
    IN  IF asked # {} /\ ~classifier_up
        THEN [response |-> analysis_failed("ClientError"),
              calls    |-> SubSeq(run.calls, 1, Min(asked))]
        ELSE run

\* what a handler returns once the transcript is there: the presentation
\* handler from line 279 on, the exercise handler from line 238 on.
\* classifier_up tells whether comprehend.detect_sentiment answers.
scored(handler, fields, transcript_text, scores, classifier_up) ==
    classified(IF handler = "presentation"
               THEN with_calls(analyze_transcript(transcript_text,
                                                  body_duration_of(fields), scores))
               ELSE exercise_run(dict_get(fields, "focus_area", ""),
                                 download_transcript(transcript_text),
                                 body_duration_of(fields),
                                 dict_get(fields, "constraints", empty_dict), scores),
               classifier_up)

-----------------------------------------------------------------------------

(* Inputs                                                                  *)

RECURSIVE repeat(_, _)
repeat(w, n) == IF n = 0 THEN "" ELSE w \o repeat(w, n - 1)

\* one sentence of n words
sentence_of(n) == repeat("a ", n - 1) \o "b."

Phrases ==
    { "I like, like, totally like this",
      "That is likely so.",
      "Um \\bum\\b \\bso\\b you know.",
      "Maybe, I guess, I think so.",
      "I am clearly, definitely sure.",
      "However, although it rained",
      "It rained. We stayed. However, we sang.",
      sentence_of(28),
      sentence_of(LongSentenceWords) }

RECURSIVE join(_)
join(q) ==
    IF q = <<>> THEN ""
    ELSE IF Len(q) = 1 THEN q[1]
    ELSE q[1] \o " " \o join(Tail(q))

Transcripts == {join(q) : q \in UNION {[1..n -> Phrases] : n \in 0..MaxPhrases}}

Durations ==
    {None, Some(0, 1), Some(0 - 5, 1), Some(30, 1), Some(7, 1), Some(240, 1), Some(5, 2)}

\* body.get("durationSeconds") or body.get("duration") or None
BodyDurations == {None, Some(30, 1), Some(0 - 5, 1)}

\* SentimentScore of a detect_sentiment response, in hundredths, in the order
\* of the response; <<>> when the response carries none
\* (differences of scores are exact here; the values stay a hundredth away
\* from the 0.15 margin, where binary floating point rounds either way)
sentiment(positive, negative, neutral, mixed) ==
    << <<"Positive", positive>>, <<"Negative", negative>>,
       <<"Neutral", neutral>>, <<"Mixed", mixed>> >>

SentimentScores ==
    { <<>>,
      << <<"Positive", 100>> >>,
      sentiment(20, 5, 70, 5),
      sentiment(90, 5, 3, 2),
      sentiment(40, 0, 60, 0),
      sentiment(41, 0, 59, 0),
      sentiment(44, 21, 30, 5),
      sentiment(46, 19, 30, 5),
      sentiment(5, 80, 10, 5),
      sentiment(10, 10, 30, 50),
      sentiment(40, 40, 10, 10) }

\* the distributions the text-dependent scorers are run with
PolarScores ==
    { <<>>,
      << <<"Positive", 100>> >>,
      sentiment(20, 5, 70, 5),
      sentiment(5, 80, 10, 5) }

\* the filler lists find_filler_examples is called with: the keys of
\* per_filler, the handler's fallback list, and a list of one
FillerLists == {fillers, <<"um", "uh", "like">>, <<"like">>}

\* max_examples: none, one, and the default
ExampleQuotas == {0, 1, 3}

\* the classifier's responses the handler is run with
HandlerScores == {<<>>, sentiment(5, 80, 10, 5)}

\* int(time.time()) at the start of a run
CallTimes == {1760852654, 1760852660}

Constraints ==
    { empty_dict,
      [pace_range            |-> [min |-> 100, max |-> 160],
       max_fillers           |-> 1,
       min_clarity_score     |-> 95,
       min_confidence_score  |-> 95,
       required_tones        |-> <<"Positive", "Neutral">>],
      [pace_range            |-> [min |-> 140],
       max_fillers           |-> 0,
       min_clarity_score     |-> 50,
       min_confidence_score  |-> 50,
       required_tones        |-> <<"NEUTRAL">>] }

\* the URL forms of parse_s3_url's docstring (lines 181-187)
url_forms == {"s3", "virtual", "virtual-region", "path", "path-region"}

url_of(form, bucket, key) ==
    IF form = "s3" THEN "s3://" \o bucket \o "/" \o key
    ELSE IF form = "virtual"
    THEN "https://" \o bucket \o ".s3.amazonaws.com/" \o key
    ELSE IF form = "virtual-region"
    THEN "https://" \o bucket \o ".s3.us-east-2.amazonaws.com/" \o key
    ELSE IF form = "path"
    THEN "https://s3.amazonaws.com/" \o bucket \o "/" \o key
    ELSE "https://s3.us-east-2.amazonaws.com/" \o bucket \o "/" \o key

Buckets == {"bucket", "student-app-recordings-2025", "my.bucket"}

Keys == {"key", "presentations/test.wav", "backup.s3.tar"}

Queries == {"", "?X-Amz-Expires=3600", "?versionId=3/L4kq?x"}

\* strings of none of the documented forms
OtherUrls ==
    { "", "not a url", "https://example.com/a.wav", "https://amazonaws.com/bucket/key",
      "s3://bucket", "s3://bucket/", "s3:///key", "s3://",
      "https://bucket.s3.amazonaws.com/", "https://.s3.amazonaws.com/key",
      "https://s3.amazonaws.com/bucket", "https://s3.amazonaws.com/bucket/",
      "https://s3.amazonaws.com//key", "https://s3.us-east-2.amazonaws.com/",
      "http://bucket.s3.amazonaws.com/key", "bucket.s3.amazonaws.com/key",
      "s3.amazonaws.com/bucket/key", "ftp://bucket.s3.amazonaws.com/key",
      "https://bucket.s3.amazonaws.com?key" }

\* the recording URLs parse_s3_url is given: every documented form of
\* every bucket and key, with each query string, and the other strings;
\* form, bucket and key tell what the URL was made of
UrlRequests ==
    { [url |-> url_of(form, bucket, key) \o query, form |-> form,
       bucket |-> bucket, key |-> key] :
        form \in url_forms, bucket \in Buckets, key \in Keys, query \in Queries }
    \cup { [url |-> url, form |-> "other"] : url \in OtherUrls }

\* the bucket of the recordings
bucket_uri == "s3://student-app-recordings-2025/"

\* what the transcription service hears in the recordings of the bucket
recordings ==
    (bucket_uri \o storage_key("talk.mp3") :> "I am clearly, definitely sure.")
    @@ (bucket_uri \o storage_key("pitch.wav") :> "Maybe, I guess, I think so.")

\* an invocation of a handler before its first step: with a Lambda event
\* (via "lambda", the request being the event) or through the endpoint of
\* main.py (via "api")
invocation(handler, via, request) ==
    [handler    |-> handler,
     via        |-> via,
     request    |-> request,
     event      |-> IF via = "api" THEN endpoint_event(handler, request) ELSE request,
     pc         |-> "received",
     job_name   |-> "",
     job_status |-> "",
     response   |-> <<>>,
     http       |-> <<>>,
     touched    |-> {},
     downloaded |-> FALSE,
     calls      |-> <<>>]

event_of(type, fields) == [body |-> [type |-> type, fields |-> fields]]

talk_url == presigned_url(storage_key("talk.mp3"))

pitch_url == bucket_uri \o storage_key("pitch.wav")

\* one invocation alone: Lambda events without an object in the body and
\* with one, and requests to the endpoints of main.py
Invocations ==
    {invocation(handler, "lambda", event_of(type, empty_dict)) :
        handler \in {"upload", "presentation", "exercise"},
        type \in {"missing", "not json", "json array"}}
    \cup {invocation("upload", "lambda", event_of("json object", fields)) : fields \in
            { [fileName |-> "talk.mp3", fileType |-> "audio/mpeg",
               fileContent |-> [base64 |-> TRUE, bytes |-> "first take"]],
              [fileName |-> "talk.mp3", fileType |-> "audio/mpeg",
               fileContent |-> [base64 |-> FALSE, bytes |-> ""]],
              [fileType |-> "audio/mpeg",
               fileContent |-> [base64 |-> TRUE, bytes |-> "first take"]] }}
    \cup {invocation("presentation", "lambda", event) : event \in
            { event_of("dict", [recordingUrl |-> talk_url]),
              event_of("json object", empty_dict),
              event_of("json object", [recordingUrl |-> "https://example.com/a.wav"]),
              event_of("json object", [recordingUrl |-> talk_url]),
              event_of("json object", [recordingUrl |-> pitch_url,
                                       durationSeconds |-> Some(30, 1)]) }}
    \cup {invocation("exercise", "lambda", event_of("dict", fields)) : fields \in
            { [recordingUrl |-> talk_url],
              [recordingUrl |-> talk_url, focus_area |-> "volume"],
              [recordingUrl |-> "https://example.com/a.wav", focus_area |-> "pace"],
              [recordingUrl |-> pitch_url, focus_area |-> "pace",
               durationSeconds |-> Some(30, 1),
               constraints |-> [pace_range |-> [min |-> 100, max |-> 160]]] }}
    \cup {invocation("exercise", "lambda",
                     event_of("json object", [recordingUrl |-> talk_url,
                                              focus_area |-> focus_area])) :
            focus_area \in focus_areas}
    \cup {invocation("upload", "api", [filename |-> "talk.mp3",
                                       content_type |-> "audio/mpeg",
                                       content |-> "first take"])}
    \cup {invocation("presentation", "api", [recording_url |-> url]) :
            url \in {talk_url, "", "https://example.com/a.wav"}}
    \cup {invocation("exercise", "api", [recording_url |-> url,
                                         focus_area |-> focus_area,
                                         constraints |-> empty_dict]) :
            url \in {talk_url, ""}, focus_area \in {"pace", "tone", "volume"}}

\* two invocations at a time: two uploads of files of the same name, two
\* analyses of different recordings, two handlers on the same recording
ConcurrentInvocations ==
    { <<invocation("upload", "api", [filename |-> "talk.mp3",
                                     content_type |-> "audio/mpeg",
                                     content |-> "first take"]),
        invocation("upload", "api", [filename |-> "talk.mp3",
                                     content_type |-> "audio/mpeg",
                                     content |-> "second take"])>>,
      <<invocation("presentation", "lambda",
                   event_of("json object", [recordingUrl |-> talk_url])),
        invocation("presentation", "lambda",
                   event_of("json object", [recordingUrl |-> pitch_url]))>>,
      <<invocation("presentation", "lambda",
                   event_of("json object", [recordingUrl |-> talk_url])),
        invocation("exercise", "lambda",
                   event_of("dict", [recordingUrl |-> talk_url,
                                     focus_area |-> "pace"]))>> }

\* the metrics records the constraint evaluator is run on
MetricsRecords ==
    { [fillers |-> [total |-> total], pace |-> 1300, estimated_duration |-> 58,
       confidence |-> [score |-> 80]] : total \in {0, 2, 3} }
    \cup { [fillers |-> [total |-> 5], pace |-> 900, estimated_duration |-> 30,
            confidence |-> [score |-> 40]],
           [fillers |-> [total |-> 3], pace |-> 1612, estimated_duration |-> 64,
            confidence |-> [score |-> 70]] }

\* the constraint sets the constraint evaluator is run with; the last one
\* carries a key the evaluator does not know
ConstraintSets ==
    { empty_dict,
      [max_fillers |-> 3],
      [duration |-> 60],
      [duration |-> 60, duration_tolerance |-> 5, max_fillers |-> 0],
      [required_phrases |-> <<"It rained", "pizza">>,
       forbidden_phrases |-> <<"Maybe", "you know">>],
      [pace_range |-> [min |-> 120, max |-> 150], min_confidence_score |-> 70],
      [pace_range |-> empty_dict, max_fillers |-> 3, min_volume |-> 10] }

-----------------------------------------------------------------------------
(* State machine: a transcript, and one call on it per behaviour. call is  *)
(* the function invoked, args its arguments besides the transcript, ret    *)
(* what it returned or raised, invoked the scorers it called on the way.   *)

Init ==
    /\ transcript \in Transcripts
    /\ call = "none"
    /\ args = <<>>
    /\ ret = <<>>
    /\ invoked = <<>>
    /\ runs = <<>>
    /\ jobs = <<>>
    /\ objects = <<>>
    /\ clock = 0

CountFillerWords ==
    /\ call = "none"
    /\ call' = "count_filler_words"
    /\ args' = <<>>
    /\ ret' = count_filler_words(transcript)
    /\ invoked' = <<>>
    /\ UNCHANGED <<transcript, runs, jobs, clock, objects>>

CalculatePace ==
    /\ call = "none"
    /\ \E d \in Durations :
         /\ args' = [duration_seconds |-> d]
         /\ ret' = calculate_pace(transcript, d)
    /\ call' = "calculate_pace"
    /\ invoked' = <<>>
    /\ UNCHANGED <<transcript, runs, jobs, clock, objects>>

PackageCalculatePace ==
    /\ call = "none"
    /\ \E d \in Durations :
         /\ args' = [duration_seconds |-> d]
         /\ ret' = package_calculate_pace(transcript, d)
    /\ call' = "package.calculate_pace"
    /\ invoked' = <<>>
    /\ UNCHANGED <<transcript, runs, jobs, clock, objects>>

AnalyzeTone ==
    /\ call = "none"
    /\ \E scores \in SentimentScores :
         /\ args' = [scores |-> scores]
         /\ ret' = analyze_tone(transcript, scores)
    /\ call' = "analyze_tone"
    /\ invoked' = <<>>
    /\ UNCHANGED <<transcript, runs, jobs, clock, objects>>

AnalyzeClarity ==
    /\ call = "none"
    /\ call' = "analyze_clarity"
    /\ args' = <<>>
    /\ ret' = analyze_clarity(transcript)
    /\ invoked' = <<>>
    /\ UNCHANGED <<transcript, runs, jobs, clock, objects>>

\* analyze_confidence on the transcript, its reading of the text being given
ScoreConfidence(counted) ==
    /\ \E scores \in PolarScores :
         /\ args' = [tone_scores |-> scores]
         /\ ret' = confidence_report(counted, scores)
    /\ call' = "analyze_confidence"
    /\ invoked' = <<>>
    /\ UNCHANGED <<transcript, runs, jobs, clock, objects>>

AnalyzeConfidence ==
    /\ call = "none"
    /\ ScoreConfidence(counted_markers(transcript))

FindFillerExamples ==
    /\ call = "none"
    /\ \E filler_list \in FillerLists, max_examples \in ExampleQuotas :
         /\ args' = [fillers |-> filler_list, max_examples |-> max_examples]
         /\ ret' = [raised   |-> "None",
                    examples |-> find_filler_examples(transcript, filler_list,
                                                      max_examples)]
    /\ call' = "find_filler_examples"
    /\ invoked' = <<>>
    /\ UNCHANGED <<transcript, runs, jobs, clock, objects>>

AnalyzePaceExercise ==
    /\ call = "none"
    /\ \E d \in Durations, c \in Constraints :
         /\ args' = [duration_seconds |-> d, constraints |-> c]
         /\ ret' = analyze_pace_exercise(transcript, d, c)
         /\ invoked' = exercise_calls("pace", transcript, c)
    /\ call' = "analyze_pace_exercise"
    /\ UNCHANGED <<transcript, runs, jobs, clock, objects>>

AnalyzeFillersExercise ==
    /\ call = "none"
    /\ \E c \in Constraints :
         /\ args' = [constraints |-> c]
         /\ ret' = analyze_fillers_exercise(transcript, c)
         /\ invoked' = exercise_calls("fillers", transcript, c)
    /\ call' = "analyze_fillers_exercise"
    /\ UNCHANGED <<transcript, runs, jobs, clock, objects>>

AnalyzeClarityExercise ==
    /\ call = "none"
    /\ \E c \in Constraints :
         /\ args' = [constraints |-> c]
         /\ ret' = analyze_clarity_exercise(transcript, c)
         /\ invoked' = exercise_calls("clarity", transcript, c)
    /\ call' = "analyze_clarity_exercise"
    /\ UNCHANGED <<transcript, runs, jobs, clock, objects>>

\* analyze_confidence_exercise on the transcript, analyze_confidence's
\* reading of the text being given
DrillConfidence(counted) ==
    /\ \E scores \in PolarScores, c \in Constraints :
         /\ args' = [scores |-> scores, constraints |-> c]
         /\ ret' = confidence_exercise_of(
                       confidence_report(counted,
                                         analyze_tone(transcript, scores).raw), c)
         /\ invoked' = exercise_calls("confidence", transcript, c)
    /\ call' = "analyze_confidence_exercise"
    /\ UNCHANGED <<transcript, runs, jobs, clock, objects>>

AnalyzeConfidenceExercise ==
    /\ call = "none"
    /\ DrillConfidence(counted_markers(transcript))

AnalyzeToneExercise ==
    /\ call = "none"
    /\ \E scores \in SentimentScores, c \in Constraints :
         /\ args' = [scores |-> scores, constraints |-> c]
         /\ ret' = analyze_tone_exercise(transcript, scores, c)
         /\ invoked' = exercise_calls("tone", transcript, c)
    /\ call' = "analyze_tone_exercise"
    /\ UNCHANGED <<transcript, runs, jobs, clock, objects>>

\* the handler run on the transcript, the results of the scorers that read
\* nothing but the transcript being given
ServeTranscript(filler_info, clarity_info, counted, filler_examples) ==
    /\ \E d \in BodyDurations, scores \in HandlerScores, now \in CallTimes :
         /\ args' = [body_duration |-> d, scores |-> scores, now |-> now]
         /\ ret' = scored_transcript(transcript, d, scores, filler_info,
                                     clarity_info, counted, filler_examples)
         /\ invoked' = presentation_calls(ret')
    /\ call' = "analyzePresentation.lambda_handler"
    /\ UNCHANGED <<transcript, runs, jobs, clock, objects>>

AnalyzeTranscript ==
    /\ call = "none"
    /\ ServeTranscript(count_filler_words(transcript),
                       analyze_clarity(transcript),
                       counted_markers(transcript),
                       handler_examples(transcript, count_filler_words(transcript)))

\* a second request with the same body, for a recording with the same
\* transcript and the same classifier response, served by the same process
\* at a later clock reading (the transcription service refuses a job name
\* that is taken)
AnalyzeTranscriptAgain ==
    /\ call = "analyzePresentation.lambda_handler"
    /\ \E now \in {t \in CallTimes : t > args.now} :
         LET second == presentation_run(transcript, args.body_duration,
                                        args.scores, now)
         IN  /\ args' = [args EXCEPT !.now = now]
             /\ ret' = [first  |-> ret,
                        second |-> second.response,
                        jobs   |-> <<job_name(args.now), second.job_name>>]
             /\ invoked' = invoked \o presentation_calls(second.response)
    /\ call' = "analyzePresentation.lambda_handler twice"
    /\ UNCHANGED <<transcript, runs, jobs, clock, objects>>

\* analyzeExercise.lambda_handler on a request for a recording with this
\* transcript, from the download of the transcript on; the request carries
\* no constraints (line 204 then takes {})
AnalyzeExercise ==
    /\ call = "none"
    /\ \E focus_area \in focus_areas, d \in BodyDurations, scores \in HandlerScores :
         LET run == exercise_run(focus_area, download_transcript(transcript),
                                 d, empty_dict, scores)
         IN  /\ args' = [focus_area |-> focus_area, body_duration |-> d,
                         constraints |-> empty_dict, scores |-> scores]
             /\ ret' = run.response
             /\ invoked' = run.calls
    /\ call' = "analyzeExercise.lambda_handler"
    /\ UNCHANGED <<transcript, runs, jobs, clock, objects>>

\* evaluate_constraints on the transcript, its lower-cased text being given
CheckConstraints(transcript_lower) ==
    /\ \E metrics \in MetricsRecords, constraints \in ConstraintSets :
         /\ args' = [metrics |-> metrics, constraints |-> constraints]
         /\ ret' = evaluate_constraints(transcript_lower, metrics, constraints)
    /\ call' = "evaluate_constraints"
    /\ invoked' = <<>>
    /\ UNCHANGED <<transcript, runs, jobs, clock, objects>>

EvaluateConstraints ==
    /\ call = "none"
    /\ CheckConstraints(lower(transcript))

Next ==
    \/ CountFillerWords
    \/ CalculatePace
    \/ PackageCalculatePace
    \/ AnalyzeTone
    \/ AnalyzeClarity
    \/ AnalyzeConfidence
    \/ FindFillerExamples
    \/ AnalyzePaceExercise
    \/ AnalyzeFillersExercise
    \/ AnalyzeClarityExercise
    \/ AnalyzeConfidenceExercise
    \/ AnalyzeToneExercise
    \/ AnalyzeTranscript
    \/ AnalyzeTranscriptAgain
    \/ AnalyzeExercise

Spec == Init /\ [][Next]_vars

\* parse_s3_url on the recordingUrl of a request, before anything is
\* transcribed
UrlInit ==
    /\ transcript = ""
    /\ call = "none"
    /\ args = <<>>
    /\ ret = <<>>
    /\ invoked = <<>>
    /\ runs = <<>>
    /\ jobs = <<>>
    /\ objects = <<>>
    /\ clock = 0

ParseS3Url ==
    /\ call = "none"
    /\ \E request \in UrlRequests :
         /\ args' = request
         /\ ret' = parse_s3_url(request.url)
    /\ call' = "parse_s3_url"
    /\ invoked' = <<>>
    /\ UNCHANGED <<transcript, runs, jobs, clock, objects>>

UrlSpec == UrlInit /\ [][ParseS3Url]_vars

\* the constraint evaluator alone, on the same transcripts
ConstraintSpec == Init /\ [][EvaluateConstraints]_vars

-----------------------------------------------------------------------------
(* Properties                                                              *)

Letters == UpperLetters \cup {Char(LowerCase, k) : k \in 1..Len(LowerCase)}

Digits == {"0", "1", "2", "3", "4", "5", "6", "7", "8", "9"}

IsWordChar(c) == c \in Letters \cup Digits \cup {"_"}

\* occurrences of phrase f in s as a whole word or phrase: not preceded and
\* not followed by a word character
whole_word_count(s, f) ==
    Cardinality({i \in occurrences(s, f) :
                    /\ (i = 1 \/ ~IsWordChar(Char(s, i - 1)))
                    /\ (i + Len(f) > Len(s) \/ ~IsWordChar(Char(s, i + Len(f))))})

RECURSIVE SumOver(_, _)
SumOver(fn, S) ==
    IF S = {} THEN 0
    ELSE LET x == CHOOSE y \in S : TRUE IN fn[x] + SumOver(fn, S \ {x})

DefaultFillers == {"um", "uh", "like", "you know", "so", "actually"}

\* C1: count_filler_words returns, for each phrase of the default list, the
\* number of case-insensitive whole-word occurrences of the phrase in the
\* transcript; "I like, like, totally like this" gives like = 3, every other
\* count 0 and total = 3.
C1_FillerCountsAreWholeWordOccurrences ==
    call = "count_filler_words" =>
        /\ \A f \in DefaultFillers :
               ret.per_filler[f] = whole_word_count(lower(transcript), f)
        /\ transcript = "I like, like, totally like this" =>
               /\ ret.per_filler["like"] = 3
               /\ \A f \in DefaultFillers \ {"like"} : ret.per_filler[f] = 0
               /\ ret.total = 3

\* C2: the report of count_filler_words has total equal to the sum of the
\* per-filler counts, every count a non-negative integer, and exactly one
\* entry per configured filler phrase, for every transcript.
C2_FillerTotalIsSumOfCounts ==
    call = "count_filler_words" =>
        /\ DOMAIN ret.per_filler = DefaultFillers
        /\ \A f \in DefaultFillers : ret.per_filler[f] \in Nat
        /\ ret.total \in Nat
        /\ ret.total = SumOver(ret.per_filler, DefaultFillers)

\* C2 witness: a report in which two different fillers were counted
C2_TwoFillersCounted ==
    /\ call = "count_filler_words"
    /\ ret.per_filler["um"] > 0
    /\ ret.per_filler["so"] > 0
    /\ ret.total >= 2

\* C3: with a duration that is missing, zero or negative and a transcript
\* from which no duration can be estimated (no words), calculate_pace
\* reports a pace of 0 and does not raise; the presentation handler, given
\* an empty transcript and no request duration, returns a feedback record
\* with pace 0.
C3_PaceIsZeroWhenDurationUnresolved ==
    /\ (call = "calculate_pace"
        /\ ~is_positive(args.duration_seconds)
        /\ len_split(transcript) = 0)
       => (ret.raised = "None" /\ ret.wpm = 0)
    /\ (call = "analyzePresentation.lambda_handler"
        /\ transcript = ""
        /\ args.body_duration = None)
       => (ret.statusCode = 200 /\ ret.feedback.pace_wpm = 0)

\* C4: for every transcript and every duration_seconds > 0, calculate_pace
\* returns word_count / (duration_seconds / 60) rounded to one decimal,
\* word_count being the number of whitespace-separated tokens: the result,
\* in tenths, is an integer nearest to 600 * word_count / duration_seconds.
C4_PaceIsWordsPerMinuteRounded ==
    (call \in {"calculate_pace", "package.calculate_pace"}
     /\ is_positive(args.duration_seconds))
    => LET d == args.duration_seconds[1]
           exact == len_split(transcript) * 600 * d.den
       IN  /\ ret.raised = "None"
           /\ 2 * (ret.wpm * d.num - exact) <= d.num
           /\ 2 * (exact - ret.wpm * d.num) <= d.num
           /\ len_split(transcript) = 0 => ret.wpm = 0

\* C4 witness: a pace that had to be rounded up
C4_PaceRoundedUp ==
    /\ call = "calculate_pace"
    /\ is_positive(args.duration_seconds)
    /\ ret.raised = "None"
    /\ ret.wpm * args.duration_seconds[1].num
           > len_split(transcript) * 600 * args.duration_seconds[1].den

\* C5: the clarity score is 100 minus a sentence-length penalty within
\* [0, 30] minus a complex-transition penalty within [0, 20], each penalty
\* decided by its own condition alone, and the score lies within [0, 100].
C5_ClarityScoreIsCappedPenalties ==
    call = "analyze_clarity" =>
        LET sentences == sent_tokenize(transcript)
            total == sum_seq([i \in 1..Len(sentences) |-> len_split(sentences[i])])
            n == ret.score.den
            by_length == length_penalty(total, n)
            by_transitions == transition_penalty(ret.complex_transition_count,
                                                 Len(sentences))
        IN  /\ n = max2(1, Len(sentences))
            /\ ret.score.num = 100 * n - by_length - n * by_transitions
            /\ 0 <= by_length /\ by_length <= 30 * n
            /\ 0 <= by_transitions /\ by_transitions <= 20
            /\ (by_length > 0) <=> (total > 25 * n)
            /\ (by_transitions > 0) <=> (3 * ret.complex_transition_count > Len(sentences))
            /\ 0 <= ret.score.num /\ ret.score.num <= 100 * n

\* C5 witness: the length penalty at its cap together with a transition penalty
C5_BothPenaltiesCharged ==
    /\ call = "analyze_clarity"
    /\ ret.avg_sentence_length > 400
    /\ ret.complex_transition_count > 0
    /\ ret.score.num = 60 * ret.score.den

\* C6 as stated: the score is 100 only when the average sentence length is
\* within the band of 15 to 25 words and there is no complex-transition
\* marker; outside the band or with a marker the score is below 100.
C6_PerfectOnlyInBandWithoutMarkers ==
    call = "analyze_clarity" =>
        LET sentences == sent_tokenize(transcript)
            total == sum_seq([i \in 1..Len(sentences) |-> len_split(sentences[i])])
            n == max2(1, Len(sentences))
        IN  (total < 15 * n \/ total > 25 * n \/ ret.complex_transition_count > 0)
            => ret.score.num < 100 * ret.score.den

\* C6 amended: the score is below 100 exactly when the average sentence
\* length exceeds 25 words or the complex-transition count exceeds a third
\* of the number of sentences; otherwise it is 100.
C6_PerfectUnlessLongOrDense ==
    call = "analyze_clarity" =>
        LET sentences == sent_tokenize(transcript)
            total == sum_seq([i \in 1..Len(sentences) |-> len_split(sentences[i])])
            n == max2(1, Len(sentences))
        IN  (ret.score.num < 100 * ret.score.den)
            <=> (total > 25 * n \/ 3 * ret.complex_transition_count > Len(sentences))

\* C6 witness: a score of 100 with short sentences and a transition marker
C6_PerfectWithMarkerAndShortSentences ==
    /\ call = "analyze_clarity"
    /\ ret.complex_transition_count > 0
    /\ ret.avg_sentence_length < 150
    /\ ret.score.num = 100 * ret.score.den

\* C7: for a fixed sentiment distribution, one more hedging occurrence never
\* increases the confidence score and one more assertive occurrence never
\* decreases it, in the counts and for a transcript with a marker appended.
C7_ConfidenceMonotoneInMarkers ==
    call = "analyze_confidence" =>
        LET positive_score == items_get(args.tone_scores, "Positive", 0)
            negative_score == items_get(args.tone_scores, "Negative", 0)
            score_of(confident, uncertain) ==
                clamp_score(confidence_points(confident, uncertain,
                                              positive_score, negative_score))
        IN  /\ ret.score = score_of(ret.confidence_markers, ret.uncertainty_markers)
            /\ score_of(ret.confidence_markers, ret.uncertainty_markers + 1) <= ret.score
            /\ score_of(ret.confidence_markers + 1, ret.uncertainty_markers) >= ret.score
            /\ analyze_confidence(transcript \o " maybe", args.tone_scores).score
                   <= ret.score
            /\ analyze_confidence(transcript \o " sure", args.tone_scores).score
                   >= ret.score

\* C7 witness: a score that one more hedging phrase lowers and one more
\* assertive phrase raises
C7_MarkersMoveTheScore ==
    /\ call = "analyze_confidence"
    /\ ret.uncertainty_markers > 0
    /\ analyze_confidence(transcript \o " maybe", args.tone_scores).score < ret.score
    /\ analyze_confidence(transcript \o " sure", args.tone_scores).score > ret.score

\* C8: analyze_confidence returns
\*   clamp(base - hedgingPenalty + assertiveBonus + 20 * (positive - negative), 0, 100)
\* with base 100, hedgingPenalty 10 per occurrence and at most 40,
\* assertiveBonus 5 per occurrence and at most 20; the score is within
\* [0, 100] (0..10000 hundredths).
C8_ConfidenceScoreIsClampedSum ==
    call = "analyze_confidence" =>
        LET hedging == IF ret.uncertainty_markers * 10 < 40
                       THEN ret.uncertainty_markers * 10 ELSE 40
            bonus == IF ret.confidence_markers * 5 < 20
                     THEN ret.confidence_markers * 5 ELSE 20
            unclamped == 100 * (100 - hedging + bonus)
                         + 20 * (items_get(args.tone_scores, "Positive", 0)
                                 - items_get(args.tone_scores, "Negative", 0))
        IN  /\ ret.score = IF unclamped < 0 THEN 0
                           ELSE IF unclamped > 10000 THEN 10000 ELSE unclamped
            /\ 0 <= ret.score /\ ret.score <= 10000

\* C8 witness: both caps exceeded by the counts and the sum cut at 100
C8_CapsAndClampAtWork ==
    /\ call = "analyze_confidence"
    /\ ret.confidence_markers > 4
    /\ items_get(args.tone_scores, "Positive", 0) = 100
    /\ ret.score = 10000

\* C9: the tone classification is "objective" iff neutral >= 0.60, otherwise
\* "subjective" iff max(positive, negative, mixed) - neutral > 0.15,
\* otherwise "balanced"; neutral 0.7 / positive 0.2 / negative 0.05 /
\* mixed 0.05 is objective, positive 0.9 / negative 0.05 / neutral 0.03 /
\* mixed 0.02 is subjective.
C9_ToneIsThreeWay ==
    call = "analyze_tone" =>
        LET value(key) == items_get(args.scores, key, 0)
            top == Max({value("Positive"), value("Negative"), value("Mixed")})
        IN  /\ ret.raised = "None"
            /\ ret.classification \in {"objective", "subjective", "balanced"}
            /\ (ret.classification = "objective") <=> (value("Neutral") >= 60)
            /\ (ret.classification = "subjective")
               <=> (value("Neutral") < 60 /\ top - value("Neutral") > 15)
            /\ args.scores = sentiment(20, 5, 70, 5) => ret.classification = "objective"
            /\ args.scores = sentiment(90, 5, 3, 2) => ret.classification = "subjective"

\* C9 witness: a distribution led by its mixed component, classified subjective
C9_MixedLedSubjective ==
    /\ call = "analyze_tone"
    /\ args.scores = sentiment(10, 10, 30, 50)
    /\ ret.classification = "subjective"

\* C10: every focus branch returns a result rather than raising, with a
\* status of on_target or needs_work and between 1 and 3 feedback strings,
\* for every transcript and constraint set.
C10_FocusBranchesReturnStatusAndFeedback ==
    call \in {"analyze_pace_exercise", "analyze_fillers_exercise",
              "analyze_clarity_exercise", "analyze_confidence_exercise",
              "analyze_tone_exercise"}
    => /\ ret.raised = "None"
       /\ ret.status \in {"on_target", "needs_work"}
       /\ Len(ret.feedback) \in 1..3

\* C11: in the tone focus branch the primary tone is the label of the largest
\* score of the raw distribution, the first such label on ties; status is
\* on_target iff the primary tone is one of the required tones; and without
\* a required_tones constraint a recording whose positive score is the
\* strict maximum of the distribution is on_target.
C11_PositiveLedToneIsOnTargetByDefault ==
    call = "analyze_tone_exercise" /\ args.scores # <<>> =>
        LET raw == args.scores
            value(key) == items_get(raw, key, 0)
            top == Max({raw[i][2] : i \in 1..Len(raw)})
            first == Min({i \in 1..Len(raw) : raw[i][2] = top})
        IN  /\ ret.raised = "None"
            /\ ret.tone_classification = raw[first][1]
            /\ (ret.status = "on_target")
               <=> (ret.tone_classification \in Range(ret.target_tones))
            /\ ("required_tones" \notin DOMAIN args.constraints
                /\ \A i \in 1..Len(raw) :
                       raw[i][1] # "Positive" => raw[i][2] < value("Positive"))
               => ret.status = "on_target"

\* wording of the first feedback string of the clarity and confidence branches
ExcellentWording == {"Excellent clarity score", "Excellent confidence level"}

GoodWording == {"Good clarity score", "Good confidence score"}

RemedialWording ==
    {"Your clarity score is below the aim", "Your confidence score is below the aim"}

\* C12: in the clarity and confidence focus branches the wording follows the
\* status: remedial wording whenever the score is below the target minimum
\* (status needs_work), "good" wording when the score is at least the minimum
\* and below 90, "excellent" wording only from 90 up (the claim leaves a
\* score of exactly 90 open); for every minimum, never
\* needs_work together with excellent or good wording.
C12_WordingFollowsStatus ==
    /\ call = "analyze_clarity_exercise" =>
        LET score == analyze_clarity(transcript).score
            min_score == dict_get(args.constraints, "min_clarity_score", 70)
            verdict == clarity_verdict(score, min_score)
            below == score.num < min_score * score.den
        IN  /\ below => /\ verdict.status = "needs_work"
                        /\ verdict.feedback[1] \in RemedialWording
            /\ (~below /\ score.num < 90 * score.den)
               => verdict.feedback[1] \in GoodWording
            /\ verdict.feedback[1] \in ExcellentWording => score.num >= 90 * score.den
            /\ verdict.status = "needs_work"
               => verdict.feedback[1] \notin ExcellentWording \cup GoodWording
    /\ call = "analyze_confidence_exercise" =>
        LET score == analyze_confidence(transcript, args.scores).score
            min_score == dict_get(args.constraints, "min_confidence_score", 70)
            verdict == confidence_verdict(score, min_score)
            below == score < 100 * min_score
        IN  /\ below => /\ verdict.status = "needs_work"
                        /\ verdict.feedback[1] \in RemedialWording
            /\ (~below /\ score < 100 * 90) => verdict.feedback[1] \in GoodWording
            /\ verdict.feedback[1] \in ExcellentWording => score >= 100 * 90
            /\ verdict.status = "needs_work"
               => verdict.feedback[1] \notin ExcellentWording \cup GoodWording

\* C13: a missing or empty sentiment distribution never makes scoring fail
\* and counts as all zeros: analyze_tone classifies "balanced",
\* analyze_confidence adds a tone modifier of 0, and the tone focus branch
\* returns a result with primary tone NEUTRAL.
C13_EmptyDistributionIsAllZeros ==
    /\ (call = "analyze_tone" /\ args.scores = <<>>)
       => /\ ret.raised = "None"
          /\ ret.classification = "balanced"
    /\ (call = "analyze_confidence" /\ args.tone_scores = <<>>)
       => LET hedging == IF ret.uncertainty_markers * 10 < 40
                         THEN ret.uncertainty_markers * 10 ELSE 40
              bonus == IF ret.confidence_markers * 5 < 20
                       THEN ret.confidence_markers * 5 ELSE 20
              unmodified == 100 * (100 - hedging + bonus)
          IN  /\ ret.raised = "None"
              /\ ret.score = IF unmodified > 10000 THEN 10000 ELSE unmodified
    /\ (call = "analyze_tone_exercise" /\ args.scores = <<>>)
       => /\ ret.raised = "None"
          /\ ret.tone_classification = "NEUTRAL"
          /\ ret.status \in {"on_target", "needs_work"}

\* C13 witness: the tone branch run without a distribution, on target because
\* NEUTRAL is a required tone
C13_NeutralWithoutDistribution ==
    /\ call = "analyze_tone_exercise"
    /\ args.scores = <<>>
    /\ ret.tone_classification = "NEUTRAL"
    /\ ret.status = "on_target"

\* C14: none of the scoring functions count_filler_words,
\* find_filler_examples, calculate_pace, analyze_clarity, analyze_confidence
\* raises, for any transcript (the empty one, one without sentence
\* punctuation, one made of fillers only), any duration (positive, zero,
\* negative, missing) and any sentiment mapping.
C14_ScoringFunctionsNeverRaise ==
    call \in {"count_filler_words", "find_filler_examples", "calculate_pace",
              "analyze_clarity", "analyze_confidence"}
    => ret.raised = "None"

\* the first quota distinct sentences satisfying wanted, in transcript order
RECURSIVE first_distinct(_, _, _, _, _)
first_distinct(sentences, i, wanted, quota, found) ==
    IF i > Len(sentences) \/ Len(found) >= quota THEN found
    ELSE IF wanted[i] /\ sentences[i] \notin Range(found)
         THEN first_distinct(sentences, i + 1, wanted, quota,
                             Append(found, sentences[i]))
         ELSE first_distinct(sentences, i + 1, wanted, quota, found)

\* C15: find_filler_examples returns at most max_examples sentences, each a
\* sentence of the transcript with a whole-word occurrence of a filler of the
\* given set; a sentence with such an occurrence is returned unless the quota
\* was reached before; the result keeps transcript order and has no
\* duplicates. Together: the result is the first max_examples distinct
\* sentences with a whole-word filler, in transcript order.
C15_ExamplesAreFirstSentencesWithFiller ==
    call = "find_filler_examples" =>
        LET sentences == sent_tokenize(transcript)
            wanted == [i \in 1..Len(sentences) |->
                          \E k \in 1..Len(args.fillers) :
                              whole_word_count(lower(sentences[i]), args.fillers[k]) > 0]
        IN  /\ ret.raised = "None"
            /\ Len(ret.examples) <= args.max_examples
            /\ ret.examples = first_distinct(sentences, 1, wanted,
                                             args.max_examples, <<>>)

C17_BranchesRunOnlyTheirScorers ==
    LET times(name) == Cardinality({i \in 1..Len(invoked) : invoked[i] = name})
        focus == IF call = "analyze_pace_exercise" THEN "pace"
                 ELSE IF call = "analyze_fillers_exercise" THEN "fillers"
                 ELSE IF call = "analyze_clarity_exercise" THEN "clarity"
                 ELSE IF call = "analyze_confidence_exercise" THEN "confidence"
                 ELSE IF call = "analyze_tone_exercise" THEN "tone"
                 ELSE IF call = "analyzeExercise.lambda_handler" THEN args.focus_area
                 ELSE "none"
        dispatched == call # "analyzeExercise.lambda_handler" \/ invoked # <<>>
    IN  focus # "none" =>
          /\ focus \in {"confidence", "tone"} /\ dispatched => times("analyze_tone") = 1
          /\ focus \in {"pace", "fillers", "clarity"} => times("analyze_tone") = 0
          /\ focus = "pace" /\ dispatched => invoked = <<"calculate_pace">>
          /\ focus = "fillers" =>
                Range(invoked) \subseteq {"count_filler_words", "find_filler_examples"}
          /\ focus = "fillers" /\ dispatched => times("count_filler_words") = 1
          /\ focus = "clarity" /\ dispatched => invoked = <<"analyze_clarity">>
          /\ focus = "confidence" =>
                Range(invoked) \subseteq {"analyze_tone", "analyze_confidence"}
          /\ focus = "tone" => Range(invoked) \subseteq {"analyze_tone"}

\* the fillers branch went on to the example finder, and never to the classifier
C17_FillersBranchQuotesExamples ==
    /\ call = "analyze_fillers_exercise"
    /\ invoked = <<"count_filler_words", "find_filler_examples">>

\* C18: evaluate_constraints returns respected = true iff its violations
\* list is empty, whatever the metrics and the constraints; with the
\* constraints {max_fillers: 3} a filler total of 5 gives exactly one
\* violation, on field "fillers", and respected = false, a filler total of
\* 2 (as any total up to 3) gives respected = true and no violation.
C18_RespectedIffNoViolations ==
    call = "evaluate_constraints" =>
        LET total == args.metrics.fillers.total
            only_max_fillers == DOMAIN args.constraints = {"max_fillers"}
                                /\ args.constraints["max_fillers"] = 3
        IN  /\ ret.respected <=> ret.violations = <<>>
            /\ only_max_fillers /\ total > 3 =>
                  /\ Len(ret.violations) = 1
                  /\ ret.violations[1].field = "fillers"
                  /\ ~ret.respected
            /\ only_max_fillers /\ total <= 3 =>
                  /\ ret.respected
                  /\ ret.violations = <<>>

\* the example of the specification: a total of 5 against a maximum of 3
C18_FiveFillersAgainstThree ==
    /\ call = "evaluate_constraints"
    /\ DOMAIN args.constraints = {"max_fillers"}
    /\ args.constraints["max_fillers"] = 3
    /\ args.metrics.fillers.total = 5
    /\ ~ret.respected

\* C19: parse_s3_url returns exactly (bucket, key) for a URL of each
\* documented form (s3://, virtual-hosted and path style, with or without
\* region), with or without a trailing ?query, whatever the non-empty
\* bucket and key; it raises ValueError for any other input.
C19_DocumentedUrlsRoundTrip ==
    call = "parse_s3_url" =>
        IF args.form \in url_forms
        THEN ret = parsed(args.bucket, args.key)
        ELSE ret.raised = "ValueError"

\* C20: the duration of an analysis is the service-reported one, else the
\* client-supplied one, else the word-count estimate. The transcript a
\* handler downloads carries no duration, so whenever the request carries
\* a positive duration the handler analyses with that value and reports it,
\* and it reports the estimate from the word count only when the request
\* carries no positive duration.
C20_ClientDurationBeforeEstimate ==
    call \in {"analyzePresentation.lambda_handler", "analyzeExercise.lambda_handler"} =>
        LET client == args.body_duration
            tenths(d) == round_half_even(10 * d[1].num, d[1].den)
            reported == IF call = "analyzePresentation.lambda_handler"
                        THEN ret.feedback.estimated_duration_seconds
                        ELSE <<ret.feedback.duration_seconds>>
            words_per_minute == IF call = "analyzePresentation.lambda_handler"
                                THEN 150 ELSE 130
            estimate == Some(len_split(transcript) * 60, words_per_minute)
        IN  IF is_positive(client)
            THEN ret.statusCode = 200 /\ reported = <<tenths(client)>>
            ELSE ret.statusCode = 200 =>
                    reported = IF truthy(estimate) THEN <<tenths(estimate)>> ELSE None

-----------------------------------------------------------------------------

(* The handlers step by step: each invocation in `runs` moves through its  *)
(* handler while the transcription service works on `jobs`, the clock      *)
(* advances and the bucket holds `objects`.                                *)

\* how many seconds the clock advances
MaxTicks == 2

\* a handler returns response; the endpoint that called it answers
returned(run, response) ==
    [run EXCEPT !.pc = "done", !.response = response,
                !.http = IF run.via = "api" THEN endpoint_answer(response) ELSE <<>>]

HandlerInit ==
    /\ runs \in {<<run>> : run \in Invocations} \cup ConcurrentInvocations
    /\ jobs = <<>>
    /\ objects = <<>>
    /\ clock = Min(CallTimes)
    /\ transcript = ""
    /\ call = "none"
    /\ args = <<>>
    /\ ret = <<>>
    /\ invoked = <<>>

\* the checks of a handler up to its first call of a service
Validate(i) ==
    /\ runs[i].pc = "received"
    /\ LET body == runs[i].event.body
           checked == IF runs[i].handler = "upload" THEN upload_validate(body)
                      ELSE IF runs[i].handler = "presentation"
                      THEN presentation_validate(body)
                      ELSE exercise_validate(body)
       IN  runs' = [runs EXCEPT ![i] =
                        IF checked.ok THEN [@ EXCEPT !.pc = "validated"]
                        ELSE returned(@, checked.response)]
    /\ UNCHANGED <<jobs, clock, objects, transcript, call, args, ret, invoked>>

\* uploadRecording.lambda_handler lines 21-41
PutObject(i) ==
    /\ runs[i].pc = "validated"
    /\ runs[i].handler = "upload"
    /\ LET fields == runs[i].event.body.fields
           key == storage_key(fields["fileName"])
       IN  /\ objects' = (key :> fields["fileContent"].bytes) @@ objects
           /\ runs' = [runs EXCEPT ![i] =
                        returned([@ EXCEPT !.touched = @ \cup {"s3.put_object"}],
                                 [statusCode   |-> 200,
                                  message      |-> "File uploaded successfully!",
                                  recordingUrl |-> presigned_url(key)])]
    /\ UNCHANGED <<jobs, clock, transcript, call, args, ret, invoked>>

\* analyzePresentation.py lines 252-261, analyzeExercise.py lines 212-219:
\* the service refuses a name it already has (ConflictException)
StartJob(i) ==
    /\ runs[i].pc = "validated"
    /\ runs[i].handler # "upload"
    /\ LET name == job_name_at(runs[i].handler, clock)
           url == parse_s3_url(runs[i].event.body.fields["recordingUrl"])
           asked == [runs[i] EXCEPT !.job_name = name,
                        !.touched = @ \cup {"transcribe.start_transcription_job"}]
       IN  IF name \in DOMAIN jobs
           THEN /\ runs' = [runs EXCEPT ![i] =
                        returned(asked, analysis_failed("ConflictException"))]
                /\ jobs' = jobs
           ELSE /\ runs' = [runs EXCEPT ![i] = [asked EXCEPT !.pc = "polling"]]
                /\ jobs' = (name :> [media  |-> "s3://" \o url.bucket \o "/" \o url.key,
                                     status |-> "QUEUED"]) @@ jobs
    /\ UNCHANGED <<clock, objects, transcript, call, args, ret, invoked>>

\* lines 264-267 (223-225): one reading of the status of the job
Poll(i) ==
    /\ runs[i].pc = "polling"
    /\ LET job_status == jobs[runs[i].job_name].status
       IN  runs' = [runs EXCEPT ![i] =
                        [@ EXCEPT !.job_status = job_status,
                                  !.touched = @ \cup {"transcribe.get_transcription_job"},
                                  !.pc = IF job_done(job_status) THEN "polled"
                                         ELSE "sleeping"]]
    /\ UNCHANGED <<jobs, clock, objects, transcript, call, args, ret, invoked>>

\* line 269 (227): time.sleep(2), then the loop again
Sleep(i) ==
    /\ runs[i].pc = "sleeping"
    /\ runs' = [runs EXCEPT ![i].pc = "polling"]
    /\ UNCHANGED <<jobs, clock, objects, transcript, call, args, ret, invoked>>

\* lines 271-272 (229-230)
TranscriptionFailed(i) ==
    /\ runs[i].pc = "polled"
    /\ runs[i].job_status = "FAILED"
    /\ runs' = [runs EXCEPT ![i] =
                    returned(@, [statusCode |-> 500, message |-> "Transcription failed"])]
    /\ UNCHANGED <<jobs, clock, objects, transcript, call, args, ret, invoked>>

\* the invocation after the download of the transcript and the scoring
analyzed(run, result) ==
    returned([run EXCEPT !.calls = result.calls, !.downloaded = TRUE,
                         !.touched = @ \cup {"requests.get"}
                            \cup (IF \E k \in DOMAIN result.calls :
                                        result.calls[k] = "analyze_tone"
                                  THEN {"comprehend.detect_sentiment"} ELSE {})],
             result.response)

\* the download of the transcript and everything after it
Analyze(i) ==
    /\ runs[i].pc = "polled"
    /\ runs[i].job_status = "COMPLETED"
    /\ \E scores \in HandlerScores, classifier_up \in BOOLEAN :
        runs' = [runs EXCEPT ![i] =
                    analyzed(@, scored(@.handler, @.event.body.fields,
                                       recordings[jobs[@.job_name].media],
                                       scores, classifier_up))]
    /\ UNCHANGED <<jobs, clock, objects, transcript, call, args, ret, invoked>>

\* a call of S3, of the transcription service or of the download raises,
\* and `except Exception` answers
ExternalFailure(i) ==
    /\ \/ runs[i].pc \in {"validated", "polling"}
       \/ runs[i].pc = "polled" /\ runs[i].job_status = "COMPLETED"
    /\ LET service == IF runs[i].handler = "upload" THEN "s3.put_object"
                      ELSE IF runs[i].pc = "validated"
                      THEN "transcribe.start_transcription_job"
                      ELSE IF runs[i].pc = "polling"
                      THEN "transcribe.get_transcription_job"
                      ELSE "requests.get"
       IN  runs' = [runs EXCEPT ![i] =
                        returned([@ EXCEPT !.touched = @ \cup {service}],
                                 IF @.handler = "upload"
                                 THEN upload_failed("ClientError")
                                 ELSE analysis_failed("ClientError"))]
    /\ UNCHANGED <<jobs, clock, objects, transcript, call, args, ret, invoked>>

\* the transcription service works on a job
JobProgress ==
    /\ \E name \in DOMAIN jobs :
        \E status \in {"IN_PROGRESS", "COMPLETED", "FAILED"} :
            /\ \/ jobs[name].status = "QUEUED" /\ status = "IN_PROGRESS"
               \/ jobs[name].status = "IN_PROGRESS" /\ status = "FAILED"
               \/ /\ jobs[name].status = "IN_PROGRESS" /\ status = "COMPLETED"
                  /\ jobs[name].media \in DOMAIN recordings
            /\ jobs' = [jobs EXCEPT ![name].status = status]
    /\ UNCHANGED <<runs, clock, objects, transcript, call, args, ret, invoked>>

\* a second passes
Tick ==
    /\ clock < Min(CallTimes) + MaxTicks
    /\ clock' = clock + 1
    /\ UNCHANGED <<runs, jobs, objects, transcript, call, args, ret, invoked>>

HandlerNext ==
    \/ \E i \in DOMAIN runs : Validate(i)
    \/ \E i \in DOMAIN runs : PutObject(i)
    \/ \E i \in DOMAIN runs : StartJob(i)
    \/ \E i \in DOMAIN runs : Poll(i)
    \/ \E i \in DOMAIN runs : Sleep(i)
    \/ \E i \in DOMAIN runs : TranscriptionFailed(i)
    \/ \E i \in DOMAIN runs : Analyze(i)
    \/ \E i \in DOMAIN runs : ExternalFailure(i)
    \/ JobProgress
    \/ Tick

HandlerSpec == HandlerInit /\ [][HandlerNext]_vars

\* the Lambda runtime and the server keep running the loop of every
\* invocation: a reading of the status or a sleep that can happen does
\* happen. Nothing obliges the transcription service to finish a job.
FairHandlerSpec ==
    HandlerSpec /\ \A i \in 1..2 : WF_vars(i \in DOMAIN runs /\ (Poll(i) \/ Sleep(i)))

-----------------------------------------------------------------------------

(* The handlers and the endpoints                                          *)

\* C21: a well-formed exercise request whose job completed and whose
\* transcript was downloaded is answered with statusCode 200 and a feedback
\* record of focus_area, transcript, word_count, duration_seconds and the
\* analysis of the branch. The code breaks this: download_transcript returns
\* a str and line 238 indexes it with "transcript".
C21_WellFormedExerciseAnswers200 ==
    \A i \in DOMAIN runs :
        (runs[i].handler = "exercise" /\ runs[i].pc = "done" /\ runs[i].downloaded)
        => /\ runs[i].response.statusCode = 200
           /\ {"focus_area", "transcript", "word_count", "duration_seconds",
               "analysis"} \subseteq DOMAIN runs[i].response.feedback

\* C22: the exercise handler touches no external service for an invalid
\* request. Unless the body holds an object with a non-empty recordingUrl
\* that parses as an S3 URL and a focus_area among the five, the invocation
\* never leaves its checks, starts no job, downloads nothing, asks for no
\* sentiment, and returns statusCode 400.
C22_InvalidExerciseRequestsTouchNothing ==
    \A i \in DOMAIN runs :
        LET body == runs[i].event.body
            well_formed ==
                /\ body.type \in {"dict", "json object"}
                /\ dict_get(body.fields, "recordingUrl", "") # ""
                /\ dict_get(body.fields, "focus_area", "") \in focus_areas
                /\ parse_s3_url(body.fields["recordingUrl"]).raised = "None"
        IN  (runs[i].handler = "exercise" /\ ~well_formed)
            => /\ runs[i].pc \in {"received", "done"}
               /\ runs[i].touched = {}
               /\ runs[i].job_name \notin DOMAIN jobs
               /\ runs[i].pc = "done" => runs[i].response.statusCode = 400

\* an exercise request for the focus area "volume" was answered
C22_UnknownFocusAreaAnswered400 ==
    \E i \in DOMAIN runs :
        /\ runs[i].handler = "exercise"
        /\ runs[i].via = "lambda"
        /\ dict_get(runs[i].event.body.fields, "focus_area", "") = "volume"
        /\ runs[i].pc = "done"
        /\ runs[i].response = bad_request("Invalid focus area")
        /\ runs[i].touched = {}

\* C23: an analysis handler leaves its polling loop only with the status
\* COMPLETED or FAILED in hand; it downloads and scores only after
\* COMPLETED; after FAILED it returns statusCode 500 "Transcription failed"
\* with no download, no sentiment call and no scorer run.
C23_LoopLeftOnlyWhenJobEnded ==
    \A i \in DOMAIN runs :
        runs[i].handler # "upload"
        => /\ runs[i].pc = "polled" => runs[i].job_status \in {"COMPLETED", "FAILED"}
           /\ (\/ runs[i].downloaded
               \/ runs[i].calls # <<>>
               \/ runs[i].touched \cap {"requests.get", "comprehend.detect_sentiment"} # {}
               \/ runs[i].pc = "done" /\ runs[i].response.statusCode = 200)
              => runs[i].job_status = "COMPLETED"
           /\ (runs[i].pc = "done" /\ runs[i].job_status = "FAILED")
              => /\ runs[i].response
                        = [statusCode |-> 500, message |-> "Transcription failed"]
                 /\ runs[i].touched = {"transcribe.start_transcription_job",
                                       "transcribe.get_transcription_job"}
                 /\ runs[i].calls = <<>>
                 /\ ~runs[i].downloaded

\* both handlers have returned after a job that failed
C23_BothHandlersSawFailedJob ==
    /\ Len(runs) = 2
    /\ runs[1].handler = "presentation" /\ runs[2].handler = "exercise"
    /\ \A i \in DOMAIN runs :
        /\ runs[i].pc = "done"
        /\ runs[i].job_status = "FAILED"
        /\ runs[i].response.message = "Transcription failed"

\* C24: every invocation eventually returns a response, whatever the
\* transcription service does: an invocation that is waiting for its job
\* eventually stops waiting. The code breaks this: the loops of lines
\* 263-269 and 221-227 are `while True` with no limit, so a job that stays
\* QUEUED or IN_PROGRESS keeps the handler polling forever.
C24_EveryWaitEnds ==
    \A i \in 1..2 :
        (i \in DOMAIN runs /\ runs[i].pc = "polling")
        ~> (i \in DOMAIN runs /\ runs[i].pc \notin {"polling", "sleeping"})

C26_EndpointsPassTheStatusOn ==
    \A i \in DOMAIN runs :
        (runs[i].via = "api" /\ runs[i].pc = "done"
         /\ runs[i].response.statusCode # 200)
        => /\ runs[i].http.status_code = runs[i].response.statusCode
           /\ runs[i].http.detail = runs[i].response

\* C27: /api/analyze-exercise hands the focus_area of the request to the
\* handler, so that a valid focus_area passes the handler's check. The code
\* breaks this: the body of the event holds recordingUrl and constraints
\* only.
C27_EndpointHandsFocusAreaOver ==
    \A i \in DOMAIN runs :
        (runs[i].handler = "exercise" /\ runs[i].via = "api"
         /\ runs[i].request.focus_area \in focus_areas
         /\ runs[i].pc # "received")
        => /\ dict_get(runs[i].event.body.fields, "focus_area", "")
                = runs[i].request.focus_area
           /\ runs[i].pc = "done"
              => runs[i].response # bad_request("Invalid focus area")

\* C28: two invocations running at the same time never use the same job
\* name, and neither fails because of the other. The code breaks this: the
\* name is the second of the clock, so two invocations of one handler within
\* a second ask for the same name and the service refuses the later one.
C28_JobNamesNeverShared ==
    \A i \in DOMAIN runs : \A j \in DOMAIN runs :
        (i # j /\ runs[i].job_name # "")
        => /\ runs[i].job_name # runs[j].job_name
           /\ runs[i].pc = "done"
              => runs[i].response # analysis_failed("ConflictException")

\* C29: the recordingUrl returned for an upload refers to the bytes of that
\* upload, whatever was uploaded since. The code breaks this: the key is
\* "presentations/" and the fileName, so a later upload of a file of the
\* same name replaces the object.
C29_UploadsKeepTheirObject ==
    \A i \in DOMAIN runs :
        (runs[i].handler = "upload" /\ runs[i].pc = "done"
         /\ runs[i].response.statusCode = 200)
        => \E key \in DOMAIN objects :
            /\ presigned_url(key) = runs[i].response.recordingUrl
            /\ objects[key] = runs[i].event.body.fields["fileContent"].bytes

====
